---- MODULE Spec2Model ----
(***************************************************************************)
(* Model of the portfolio assistant: the bounded tool-calling loop of      *)
(* Agent.execute (agents.py), the intent router and chat orchestrator      *)
(* (chat_handler.py) and the profile store they read (memory_manager.py).  *)
(*                                                                         *)
(* Python strings are TLA+ strings; "" is the empty string.  JSON texts    *)
(* are strings in the layout json.dumps produces (", " and ": ") and are   *)
(* read back by JsonLoads, a reader for flat objects with string values.   *)
(***************************************************************************)
EXTENDS Integers, Sequences, FiniteSets, TLC

VARIABLES
    profileFile,   \* content of investment_profile.json
    pc,            \* position of Agent.execute
    agent,         \* the Agent instance (dataclass fields)
    messages,      \* execute's local list `messages`
    iteration,     \* execute's loop variable `iteration`
    message,       \* execute's local `message` (last completion response)
    tc,            \* index of the tool call of `message` being processed
    result,        \* outcome of execute: value returned or exception raised
    responses,     \* history: kind of every completion response so far
    toolRuns,      \* history: tool functions invoked so far (names)
    requests,      \* history: the `messages` every completion request was sent
    hpc,           \* position of handle_chat_message
    question,      \* handle_chat_message's argument `question`
    chat_history,  \* handle_chat_message's argument `chat_history`
    llmLabel,      \* what the classification request produced
    intent,        \* handle_chat_message's local `intent`
    task,          \* handle_chat_message's local `task`
    reply,         \* outcome of handle_chat_message
    events,        \* history: what handle_chat_message has done, in order
    chatFile,      \* content of chat_history.json
    chat_messages, \* the session's chat list (st.session_state.chat_messages)
    lastSaved,     \* history: the list passed to the most recent save_chat_history
    logOp,         \* history: the chat-log operation performed last
    portfolioFile, \* content of portfolio.json
    toolCall,      \* the tool invocation in progress: function, ticker, data source
    toolOut,       \* outcome of the tool invocation
    _cache,        \* currency_converter._cache
    clock,         \* time.time(), in seconds
    fx,            \* per thread: position and locals of get_usd_to_eur_rate
    fetched,       \* history: a fetch of the exchange rate has succeeded
    cpc,           \* position and parameter `ticker` of run_full_analysis
    crewOut,       \* outcome of run_full_analysis
    runs,          \* history: the workflows run_full_analysis has entered, with their outcomes
    pw,            \* per writer: position and locals of add_to_portfolio / remove_from_portfolio
    ops            \* history: number of portfolio calls started

agentVars == <<pc, agent, messages, iteration, message, tc, result, responses, toolRuns, requests>>
chatVars  == <<hpc, question, chat_history, llmLabel, intent, task, reply, events>>
logVars   == <<chatFile, chat_messages, lastSaved, logOp>>
toolVars  == <<portfolioFile, toolCall, toolOut>>
fxVars    == <<_cache, clock, fx, fetched>>
crewVars  == <<cpc, crewOut, runs>>
pfVars    == <<pw, ops>>
vars      == <<profileFile, agentVars, chatVars, logVars, toolVars, fxVars, crewVars, pfVars>>

(***************************************************************************)
(* Bounds.                                                                 *)
(***************************************************************************)
MaxIter  == 2    \* largest max_iterations an Agent is built with
MaxCalls == 2    \* most tool calls in one completion response
MaxWords == 3    \* most words of a question given to the keyword classifier
MaxHist  == 7    \* longest chat history given to _build_chat_task
MaxLog   == 52   \* longest chat list of a session
FxThreads == 2   \* threads calling get_usd_to_eur_rate
MaxClock == 2    \* half hours the clock advances
PfWriters == 2   \* sessions calling add_to_portfolio / remove_from_portfolio
MaxOps   == 3    \* most portfolio calls in one run

(***************************************************************************)
(* Strings.                                                                *)
(***************************************************************************)
\* s[i-1:j] of Python (1-based, inclusive), "" when the range is empty
Sub(s, i, j) == IF 1 <= i /\ i <= j /\ j <= Len(s) THEN SubSeq(s, i, j) ELSE ""

Ch(s, i) == Sub(s, i, i)

\* Python None where a string is expected (message.content of a response
\* that only carries tool calls).
None == "<None>"

\* `x or ""`
OrEmpty(x) == IF x = None \/ x = "" THEN "" ELSE x

\* `w in q` for strings
IsSubstring(w, q) ==
    \E i \in 1..(Len(q) - Len(w) + 1) : Sub(q, i, i + Len(w) - 1) = w

\* "\n".join(parts)
RECURSIVE JoinLines(_)
JoinLines(parts) ==
    IF parts = <<>> THEN ""
    ELSE IF Len(parts) = 1 THEN parts[1]
    ELSE parts[1] \o "\n" \o JoinLines(Tail(parts))

(***************************************************************************)
(* JSON.                                                                   *)
(***************************************************************************)
Quote == "\""

\* json.dumps({"error": msg})
JsonDumpsError(msg) == "{" \o Quote \o "error" \o Quote \o ": " \o Quote \o msg \o Quote \o "}"

\* json.dumps of a flat object given as a sequence of <<key, value>> pairs
RECURSIVE JsonPairs(_)
JsonPairs(kvs) ==
    IF kvs = <<>> THEN ""
    ELSE Quote \o kvs[1][1] \o Quote \o ": " \o Quote \o kvs[1][2] \o Quote
         \o (IF Len(kvs) > 1 THEN ", " ELSE "") \o JsonPairs(Tail(kvs))

JsonDumps(kvs) == "{" \o JsonPairs(kvs) \o "}"

\* Position of the first double quote of s at or after i, 0 if there is none.
RECURSIVE FindQuote(_, _)
FindQuote(s, i) ==
    IF i > Len(s) THEN 0
    ELSE IF Ch(s, i) = Quote THEN i
    ELSE FindQuote(s, i + 1)

\* Reads `"key": "value"` pairs separated by ", " from position i up to the
\* closing brace, which must be the last character.  acc is the set of
\* <<key, value>> pairs read so far.
RECURSIVE ReadPairs(_, _, _)
ReadPairs(s, i, acc) ==
    LET bad == [ok |-> FALSE, type |-> "none", pairs |-> {}]
        k2  == FindQuote(s, i + 1)
        v1  == k2 + 3
        v2  == FindQuote(s, v1 + 1)
    IN  IF i > Len(s) \/ Ch(s, i) # Quote \/ k2 = 0 THEN bad
        ELSE IF Sub(s, k2 + 1, k2 + 2) # ": " \/ v1 > Len(s) \/ Ch(s, v1) # Quote \/ v2 = 0 THEN bad
        ELSE LET acc2 == acc \cup {<<Sub(s, i + 1, k2 - 1), Sub(s, v1 + 1, v2 - 1)>>}
             IN  IF v2 + 1 = Len(s) /\ Ch(s, v2 + 1) = "}"
                     THEN [ok |-> TRUE, type |-> "object", pairs |-> acc2]
                 ELSE IF Sub(s, v2 + 1, v2 + 2) = ", "
                     THEN ReadPairs(s, v2 + 3, acc2)
                 ELSE bad

\* json.loads(s): ok is FALSE where json.loads raises JSONDecodeError.
JsonLoads(s) ==
    IF s = "{}" THEN [ok |-> TRUE, type |-> "object", pairs |-> {}]
    ELSE IF s = "[]" THEN [ok |-> TRUE, type |-> "array", pairs |-> {}]
    ELSE IF Len(s) >= 2 /\ Ch(s, 1) = "{" THEN ReadPairs(s, 2, {})
    ELSE [ok |-> FALSE, type |-> "none", pairs |-> {}]

JsonKeys(v) == {p[1] : p \in v.pairs}

(***************************************************************************)
(* The profile store (memory_manager.py).  The file is missing, holds text *)
(* that is not JSON, holds JSON that is no object, or holds an object with *)
(* some of the profile's keys.                                             *)
(***************************************************************************)
\* DEFAULT_PROFILE without last_updated, which none of the modelled functions reads
DEFAULT_PROFILE ==
    [risk_tolerance        |-> "Mittel",
     investment_horizon    |-> "5-10 Jahre",
     preferred_sectors     |-> <<>>,
     stock_size_preference |-> "Alle Groessen",
     geographic_focus      |-> "USA",
     max_position_size_pct |-> 20,
     dividend_preference   |-> FALSE,
     philosophy            |-> "",
     admired_stocks        |-> ""]

ProfileObjects ==
    { <<>>,
      DEFAULT_PROFILE,
      [risk_tolerance |-> "Hoch"],
      [investment_horizon |-> "10+ Jahre"],
      [preferred_sectors |-> <<"Kuenstliche Intelligenz">>],
      [philosophy |-> "Buy and hold"],
      [geographic_focus |-> "Europa"] }

ProfileFiles ==
    { [state |-> st, data |-> <<>>] : st \in {"missing", "invalid", "nonobject"} }
    \cup { [state |-> "object", data |-> d] : d \in ProfileObjects }

\* load_profile(): ok is FALSE where it raises (the merge of a JSON value
\* that is no mapping; only FileNotFoundError and JSONDecodeError are caught).
load_profile(file) ==
    IF file.state \in {"missing", "invalid"}
        THEN [ok |-> TRUE, profile |-> DEFAULT_PROFILE]
    ELSE IF file.state = "object"
        THEN [ok |-> TRUE,
              profile |-> [k \in DOMAIN DEFAULT_PROFILE |->
                              IF k \in DOMAIN file.data THEN file.data[k]
                              ELSE DEFAULT_PROFILE[k]]]
    ELSE [ok |-> FALSE, profile |-> DEFAULT_PROFILE]

\* is_profile_configured(), given the loaded profile
is_profile_configured(profile) ==
    \/ profile.preferred_sectors # <<>>
    \/ profile.philosophy # ""
    \/ profile.risk_tolerance \notin {"Mittel", "Medium"}
    \/ profile.investment_horizon \notin {"5-10 Jahre", "5-10y"}

\* ", ".join(xs)
RECURSIVE JoinComma(_)
JoinComma(xs) ==
    IF xs = <<>> THEN ""
    ELSE IF Len(xs) = 1 THEN xs[1]
    ELSE xs[1] \o ", " \o JoinComma(Tail(xs))

ProfileHeader == "ANLAGEPROFIL DES NUTZERS (nutze dies zur Personalisierung deiner Analyse):"

\* The lines get_profile_context() builds for a configured profile.
ProfileLines(p) ==
    <<ProfileHeader,
      "- Risikobereitschaft: " \o p.risk_tolerance,
      "- Anlagehorizont: " \o p.investment_horizon>>
    \o (IF p.preferred_sectors # <<>>
          THEN <<"- Bevorzugte Sektoren: " \o JoinComma(p.preferred_sectors)>> ELSE <<>>)
    \o <<"- Unternehmensgroesse: " \o p.stock_size_preference,
         "- Geografischer Fokus: " \o p.geographic_focus,
         "- Max. Positionsgroesse: " \o ToString(p.max_position_size_pct) \o "% des Portfolios",
         "- Dividendenpraeferenz: " \o (IF p.dividend_preference THEN "Ja" ELSE "Nein")>>
    \o (IF p.philosophy # ""
          THEN <<"- Anlagephilosophie: " \o Quote \o p.philosophy \o Quote>> ELSE <<>>)
    \o (IF p.admired_stocks # ""
          THEN <<"- Bewunderte Investments: " \o Quote \o p.admired_stocks \o Quote>> ELSE <<>>)
    \o <<"\nBasierend auf diesem Profil:">>
    \o (IF p.risk_tolerance \in {"Hoch", "Sehr hoch", "High", "Very High"}
          THEN <<"- Betone langfristiges Wachstumspotenzial statt kurzfristiger Volatilitaet.",
                 "- Keine Panik bei 20-30% Kursrueckgaengen; fokussiere auf Fundamentaldaten.">>
        ELSE IF p.risk_tolerance \in {"Niedrig", "Low"}
          THEN <<"- Priorisiere Kapitalerhalt und stabile Renditen.",
                 "- Hebe Hochvolatilitaetsrisiken deutlich hervor.">>
        ELSE <<>>)
    \o (IF IsSubstring("10+", p.investment_horizon)
          THEN <<"- Fokussiere auf langjaehrige Trends und saekulare Wachstumsthemen.",
                 "- Kurzfristige Gewinnverfehlungen sind weniger wichtig als die langfristige Entwicklung.">>
        ELSE IF IsSubstring("1-3", p.investment_horizon)
          THEN <<"- Fokussiere auf kurzfristige Katalysatoren und aktuelle Bewertung.">>
        ELSE <<>>)
    \o (IF \E i \in DOMAIN p.preferred_sectors :
              IsSubstring("Raumfahrt", p.preferred_sectors[i]) \/ IsSubstring("Space", p.preferred_sectors[i])
          THEN <<"- Der Nutzer interessiert sich fuer Raumfahrttechnologie; hebe Luft- und Raumfahrtunternehmen hervor.">> ELSE <<>>)
    \o (IF \E i \in DOMAIN p.preferred_sectors :
              \/ IsSubstring("KI", p.preferred_sectors[i])
              \/ IsSubstring("Intelligenz", p.preferred_sectors[i])
              \/ IsSubstring("AI", p.preferred_sectors[i])
          THEN <<"- Der Nutzer interessiert sich fuer KI; hebe KI-Infrastruktur, Modelle und Anwendungen hervor.">> ELSE <<>>)

\* get_profile_context(): ok is FALSE where load_profile raises; text is
\* "" for a profile that is not configured.
get_profile_context(file) ==
    LET l == load_profile(file)
    IN  IF ~l.ok THEN [ok |-> FALSE, text |-> ""]
        ELSE IF ~is_profile_configured(l.profile) THEN [ok |-> TRUE, text |-> ""]
        ELSE [ok |-> TRUE, text |-> JoinLines(ProfileLines(l.profile))]

(***************************************************************************)
(* The tool registry (tools.py).                                           *)
(***************************************************************************)
TOOL_FUNCTIONS ==
    {"get_stock_data", "get_company_info", "search_news", "get_portfolio_data", "calculate_returns"}

\* The parameters of a registered tool function; none has a default.
ToolParams(fn) ==
    IF fn \in {"get_stock_data", "get_company_info", "search_news"} THEN {"ticker"} ELSE {}

\* TOOL_SCHEMAS.get(group, []): the tool names offered to the model
TOOL_SCHEMAS(group) ==
    CASE group = "research"  -> <<"get_stock_data", "get_company_info">>
      [] group = "news"      -> <<"search_news">>
      [] group = "portfolio" -> <<"get_portfolio_data", "calculate_returns">>
      [] OTHER               -> <<>>

\* fn(**fn_args) binds: the arguments are a mapping whose keys are exactly
\* the function's parameters.  Otherwise the call raises TypeError.
Binds(fn, args) == args.type = "object" /\ JsonKeys(args) = ToolParams(fn)

\* str(e) of the TypeError of a call that does not bind
BindError(fn, args) ==
    IF args.type # "object" THEN fn \o "() argument after ** must be a mapping"
    ELSE IF JsonKeys(args) \ ToolParams(fn) # {} THEN fn \o "() got an unexpected keyword argument"
    ELSE fn \o "() missing 1 required positional argument"

\* What a registered tool returns once its arguments are bound: the data it
\* fetched, or the error object of its own except clause when the data
\* source fails.  sourceOk is the environment's choice.
ToolBody(fn, args, sourceOk) ==
    IF sourceOk THEN JsonDumps(<<<<"tool", fn>>, <<"status", "ok">>>>)
    ELSE JsonDumpsError("Error in " \o fn \o ": data source unreachable")

(***************************************************************************)
(* Agent (agents.py).                                                      *)
(***************************************************************************)
\* config.MAX_ITERATIONS, the default of Agent.max_iterations.  The
\* configured value is 15; the model scales it to the bound MaxIter.
MAX_ITERATIONS == MaxIter

Agent(role, goal, backstory, tool_group, max_iterations) ==
    [role |-> role, goal |-> goal, backstory |-> backstory,
     tool_group |-> tool_group, max_iterations |-> max_iterations]

create_research_agent ==
    Agent("Senior Investment Analyst",
          "Liefere tiefgehende, umsetzbare Fundamentalanalysen von Aktien.",
          "Du bist ein erfahrener Investment-Analyst.",
          "research", MAX_ITERATIONS)

create_news_agent ==
    Agent("Finanz-Nachrichtenanalyst",
          "Ueberwache, filtere und fasse die relevantesten Finanznachrichten zusammen.",
          "Du bist ein erfahrener Finanzjournalist.",
          "news", MAX_ITERATIONS)

create_portfolio_monitor_agent ==
    Agent("Portfolio Manager",
          "Ueberwache das aktuelle Portfolio und berechne Performance-Kennzahlen.",
          "Du bist ein zertifizierter Portfolio-Manager.",
          "portfolio", MAX_ITERATIONS)

\* Agent.system_prompt: ok is FALSE where get_profile_context raises.
system_prompt(a, file) ==
    LET base == "Du bist ein " \o a.role \o ".\n\n"
                \o "**Ziel:** " \o a.goal \o "\n\n"
                \o "**Hintergrund:** " \o a.backstory \o "\n\n"
                \o "Anweisungen:\n"
                \o "- Nutze die verfuegbaren Tools, um Daten zu sammeln, bevor du Schlussfolgerungen ziehst.\n"
                \o "- Du antwortest IMMER auf Deutsch.\n"
        ctx  == get_profile_context(file)
    IN  [ok   |-> ctx.ok,
         text |-> IF ctx.text # "" THEN base \o "\n\n" \o ctx.text \o "\n" ELSE base]

\* A message of the conversation.  tool_calls is empty and tool_call_id is
\* "" where the Python message has no such entry.
Message(role, content, tool_calls, tool_call_id) ==
    [role |-> role, content |-> content, tool_calls |-> tool_calls, tool_call_id |-> tool_call_id]

ToolCall(id, name, arguments) == [id |-> id, name |-> name, arguments |-> arguments]

\* Outcome of a call: nothing yet, a returned string, or a raised exception
\* (exc its type, value its str()).
NoResult        == [kind |-> "none",   exc |-> "", value |-> ""]
Return(v)       == [kind |-> "return", exc |-> "", value |-> v]
Raise(exc, msg) == [kind |-> "raise",  exc |-> exc, value |-> msg]

\* Off by one: a loop that runs max_iterations + 1 rounds.
RangeHasNext_Inclusive(it, a) == it <= a.max_iterations

\* `for iteration in range(self.max_iterations)`: another round follows
RangeHasNext(it, a) == it < a.max_iterations

\* `if message.tool_calls:`
HasToolCalls(msg) == msg.tool_calls # <<>>

\* The content as it came, without `or ""`.
FinalAnswer_Raw(msg) == msg.content

\* `final = message.content or ""`
FinalAnswer(msg) == OrEmpty(msg.content)

\* messages[-1].get("content", ...) after the loop.  Only the dict messages
\* have .get; the response object appended for a tool round has not.
ExhaustedResult(msgs) ==
    LET last == msgs[Len(msgs)]
    IN  IF last.role = "assistant"
            THEN Raise("AttributeError", "object has no attribute 'get'")
        ELSE Return(last.content)

\* The call reaches `fn(**fn_args)` and that call raises.
ToolRaises(call) ==
    LET args == JsonLoads(call.arguments)
    IN  args.ok /\ call.name \in TOOL_FUNCTIONS /\ ~Binds(call.name, args)

\* A lookup among the tools offered to the agent only.
ToolResult_Offered(call, args, sourceOk) ==
    IF \E i \in DOMAIN TOOL_SCHEMAS(agent.tool_group) : TOOL_SCHEMAS(agent.tool_group)[i] = call.name
        THEN IF Binds(call.name, args)
                 THEN ToolBody(call.name, args, sourceOk)
             ELSE JsonDumpsError(BindError(call.name, args))
    ELSE JsonDumpsError("Unknown tool: " \o call.name)

\* `result` of one tool call whose arguments decoded to args (lines 127-135)
ToolResult(call, args, sourceOk) ==
    IF call.name \in TOOL_FUNCTIONS
        THEN IF Binds(call.name, args)
                 THEN ToolBody(call.name, args, sourceOk)
             ELSE JsonDumpsError(BindError(call.name, args))
    ELSE JsonDumpsError("Unknown tool: " \o call.name)

\* The tool-result message appended for a call (lines 137-141)
ToolMessage(call, content) == Message("tool", content, <<>>, call.id)

\* execute up to the loop: builds the two-message conversation.
ExecuteBegin(a, t) ==
    LET sp == system_prompt(a, profileFile)
    IN  /\ pc = "idle"
        /\ agent' = a
        /\ iteration' = 0
        /\ tc' = 0
        /\ responses' = <<>>
        /\ toolRuns' = <<>>
        /\ requests' = <<>>
        /\ message' = Message("none", "", <<>>, "")
        /\ IF sp.ok
               THEN /\ messages' = <<Message("system", sp.text, <<>>, ""),
                                     Message("user", t, <<>>, "")>>
                    /\ pc' = "loop"
                    /\ result' = NoResult
           ELSE /\ messages' = <<>>
                /\ pc' = "raised"
                /\ result' = Raise("TypeError", "'list' object is not a mapping")

\* A loop head that swallows a failed request and tries again.
Complete_Retry(resp) ==
    /\ pc = "loop"
    /\ RangeHasNext(iteration, agent)
    /\ responses' = Append(responses, resp.kind)
    /\ requests' = Append(requests, messages)
    /\ IF resp.kind = "error"
           THEN UNCHANGED <<pc, result, message, messages, tc>>
       ELSE LET msg == Message("assistant", resp.content, resp.tool_calls, "")
            IN  /\ message' = msg
                /\ IF HasToolCalls(msg)
                       THEN /\ messages' = Append(messages, msg)
                            /\ tc' = 1
                            /\ pc' = "tools"
                            /\ UNCHANGED result
                   ELSE /\ pc' = "done"
                        /\ result' = Return(FinalAnswer(msg))
                        /\ UNCHANGED <<messages, tc>>
    /\ UNCHANGED <<agent, iteration, toolRuns>>

\* One pass of the loop head (lines 102-119, 145-147): the completion
\* request and the branch on its response.  resp is the endpoint's answer:
\* kind "error" where the request raises.
Complete(resp) ==
    /\ pc = "loop"
    /\ RangeHasNext(iteration, agent)
    /\ responses' = Append(responses, resp.kind)
    /\ requests' = Append(requests, messages)
    /\ IF resp.kind = "error"
           THEN /\ pc' = "raised"
                /\ result' = Raise("APIConnectionError", "Connection error.")
                /\ UNCHANGED <<message, messages, tc>>
       ELSE LET msg == Message("assistant", resp.content, resp.tool_calls, "")
            IN  /\ message' = msg
                /\ IF HasToolCalls(msg)
                       THEN /\ messages' = Append(messages, msg)
                            /\ tc' = 1
                            /\ pc' = "tools"
                            /\ UNCHANGED result
                   ELSE /\ pc' = "done"
                        /\ result' = Return(FinalAnswer(msg))
                        /\ UNCHANGED <<messages, tc>>
    /\ UNCHANGED <<agent, iteration, toolRuns>>

\* One pass of the inner loop (lines 121-142) for tool call number tc.
ExecuteToolCall(sourceOk) ==
    LET call == message.tool_calls[tc]
        args == JsonLoads(call.arguments)
    IN  /\ pc = "tools"
        /\ IF ~args.ok
               THEN /\ pc' = "raised"
                    /\ result' = Raise("JSONDecodeError", "Expecting value")
                    /\ UNCHANGED <<messages, tc, iteration, toolRuns>>
           ELSE /\ messages' = Append(messages, ToolMessage(call, ToolResult(call, args, sourceOk)))
                /\ toolRuns' = IF call.name \in TOOL_FUNCTIONS
                                   THEN Append(toolRuns, call.name) ELSE toolRuns
                /\ IF tc < Len(message.tool_calls)
                       THEN tc' = tc + 1 /\ pc' = "tools" /\ UNCHANGED iteration
                   ELSE tc' = 0 /\ pc' = "loop" /\ iteration' = iteration + 1
                /\ UNCHANGED result
        /\ UNCHANGED <<agent, message, responses, requests>>

\* The loop ran out (lines 149-150).
Exhausted ==
    /\ pc = "loop"
    /\ ~RangeHasNext(iteration, agent)
    /\ result' = ExhaustedResult(messages)
    /\ pc' = IF ExhaustedResult(messages).kind = "return" THEN "done" ELSE "raised"
    /\ UNCHANGED <<agent, messages, iteration, message, tc, responses, toolRuns, requests>>

(***************************************************************************)
(* The environment of one execute call: what the completion endpoint may   *)
(* answer.                                                                 *)
(***************************************************************************)
\* Tool calls the model may request, as <<name, arguments>>: a registered
\* tool with matching arguments, the same tool with arguments that do not
\* match its parameters, a name no tool is registered under, and an
\* arguments string cut off in the middle.
CallShapes ==
    { <<"get_stock_data", JsonDumps(<<<<"ticker", "AAPL">>>>)>>,
      <<"get_stock_data", "{}">>,
      <<"get_weather", "{}">>,
      <<"get_stock_data", "{" \o Quote \o "ticker" \o Quote \o ": " \o Quote \o "AA">> }

\* The endpoint gives every tool call of a conversation an id of its own.
CallId(round, j) == "call_" \o ToString(round) \o "_" \o ToString(j)

FinalContents == {"Empfehlung: Halten.", "", None}

Response(kind, content, tool_calls) == [kind |-> kind, content |-> content, tool_calls |-> tool_calls]

ToolCallLists(round, shapes, maxCalls) ==
    { [j \in DOMAIN f |-> ToolCall(CallId(round, j), f[j][1], f[j][2])] :
        f \in UNION {[1..k -> shapes] : k \in 1..maxCalls} }

Responses(round, shapes, maxCalls) ==
    {Response("error", None, <<>>)}
    \cup {Response("final", c, <<>>) : c \in FinalContents}
    \cup {Response("tool_calls", None, l) : l \in ToolCallLists(round, shapes, maxCalls)}

TaskSet == {"Analysiere die Aktie AAPL."}

\* The agents execute is called on directly: an Agent built with any
\* max_iterations from 0 to MaxIter.
DirectAgents == {[create_research_agent EXCEPT !.max_iterations = n] : n \in 0..MaxIter}

AgentProfileFiles ==
    {f \in ProfileFiles : f.state = "nonobject" \/ f.data = [risk_tolerance |-> "Hoch"]}

(***************************************************************************)
(* Specification of one direct call of Agent.execute.                      *)
(***************************************************************************)
NoReply == [kind |-> "none", exc |-> "", text |-> "", intent |-> ""]

AgentIdle ==
    /\ pc = "idle"
    /\ agent = Agent("", "", "", "", 0)
    /\ messages = <<>>
    /\ iteration = 0
    /\ message = Message("none", "", <<>>, "")
    /\ tc = 0
    /\ result = NoResult
    /\ responses = <<>>
    /\ toolRuns = <<>>
    /\ requests = <<>>

ChatIdle ==
    /\ hpc = "idle"
    /\ question = ""
    /\ chat_history = <<>>
    /\ llmLabel = ""
    /\ intent = ""
    /\ task = ""
    /\ reply = NoReply
    /\ events = <<>>

\* No chat_history.json yet, an empty session.
LogIdle ==
    /\ chatFile = [state |-> "missing", entries |-> <<>>]
    /\ chat_messages = <<>>
    /\ lastSaved = <<>>
    /\ logOp = "none"

NoToolCall == [fn |-> "", ticker |-> "", source |-> ""]

\* No portfolio.json yet, no tool invoked.
ToolsIdle ==
    /\ portfolioFile = [state |-> "missing", holdings |-> <<>>]
    /\ toolCall = NoToolCall
    /\ toolOut = NoResult

\* _cache["rate"] is None
RateNone == 0

Threads == 1..FxThreads

\* A thread outside get_usd_to_eur_rate.  now and rate are the function's
\* locals and ret the value returned; the rest is history: whether the call
\* found the cache stale, what the remote service answered (0: nothing
\* asked, -1: the request failed or carried no positive number) and the
\* threads whose calls ran while this one did.
FxThreadIdle ==
    [pc |-> "idle", now |-> 0, rate |-> RateNone, ret |-> RateNone,
     stale |-> FALSE, answer |-> 0, with |-> {}]

\* The module as imported: _cache = {"rate": None, "timestamp": 0.0}
FxIdle ==
    /\ _cache = [rate |-> RateNone, timestamp |-> 0]
    /\ clock = 0
    /\ fx = [t \in Threads |-> FxThreadIdle]
    /\ fetched = FALSE

\* run_full_analysis not called
CrewIdle ==
    /\ cpc = [at |-> "idle", ticker |-> ""]
    /\ crewOut = NoResult
    /\ runs = <<>>

Writers == 1..PfWriters

\* A session outside add_to_portfolio and remove_from_portfolio.  ticker,
\* shares, cost_basis_eur and portfolio are the function's parameters and
\* local list, ret the string returned; wrote and over are history: whether
\* the call wrote the file, and the sessions whose latest call saved between
\* this call's load and its save.
PwIdle ==
    [pc |-> "idle", op |-> "", ticker |-> "", shares |-> 0, cost_basis_eur |-> 0,
     portfolio |-> <<>>, ret |-> "", wrote |-> FALSE, over |-> {}]

PfIdle ==
    /\ pw = [t \in Writers |-> PwIdle]
    /\ ops = 0

Init ==
    /\ profileFile \in AgentProfileFiles
    /\ AgentIdle
    /\ ChatIdle
    /\ LogIdle
    /\ ToolsIdle
    /\ FxIdle
    /\ CrewIdle
    /\ PfIdle

CallExecute ==
    /\ hpc = "idle"
    /\ \E a \in DirectAgents, t \in TaskSet : ExecuteBegin(a, t)
    /\ UNCHANGED <<profileFile, chatVars>>
    /\ UNCHANGED <<logVars, toolVars, fxVars, crewVars, pfVars>>

\* What the endpoint may answer to the request of each round.
AgentResponses == [i \in 0..MaxIter |-> Responses(i + 1, CallShapes, MaxCalls)]

CompletionStep ==
    /\ \E r \in AgentResponses[iteration] : Complete(r)
    /\ UNCHANGED <<profileFile, chatVars>>
    /\ UNCHANGED <<logVars, toolVars, fxVars, crewVars, pfVars>>

ToolStep ==
    /\ ExecuteToolCall(TRUE)
    /\ UNCHANGED <<profileFile, chatVars>>
    /\ UNCHANGED <<logVars, toolVars, fxVars, crewVars, pfVars>>

ExhaustedStep ==
    /\ Exhausted
    /\ UNCHANGED <<profileFile, chatVars>>
    /\ UNCHANGED <<logVars, toolVars, fxVars, crewVars, pfVars>>

Next ==
    \/ CallExecute
    \/ CompletionStep
    \/ ToolStep
    \/ ExhaustedStep

Spec == Init /\ [][Next]_vars

(***************************************************************************)
(* Intent classification and the chat orchestrator (chat_handler.py).      *)
(***************************************************************************)
UpperLetters == "ABCDEFGHIJKLMNOPQRSTUVWXYZ"
LowerLetters == "abcdefghijklmnopqrstuvwxyz"

\* c.lower() for one character
LowerChar(c) ==
    IF \E i \in 1..Len(UpperLetters) : Ch(UpperLetters, i) = c
        THEN Ch(LowerLetters, CHOOSE i \in 1..Len(UpperLetters) : Ch(UpperLetters, i) = c)
    ELSE c

\* s.lower()
RECURSIVE Lower(_)
Lower(s) == IF s = "" THEN "" ELSE LowerChar(Ch(s, 1)) \o Lower(Sub(s, 2, Len(s)))

IsSpace(c) == c \in {" ", "\n", "\t", "\r"}

\* s.strip()
RECURSIVE Strip(_)
Strip(s) ==
    IF s = "" THEN ""
    ELSE IF IsSpace(Ch(s, 1)) THEN Strip(Sub(s, 2, Len(s)))
    ELSE IF IsSpace(Ch(s, Len(s))) THEN Strip(Sub(s, 1, Len(s) - 1))
    ELSE s

news_words ==
    <<"news", "nachrichten", "aktuell", "heute", "kuerzlich",
      "headline", "schlagzeile", "ereignis", "quartals", "meldung">>

portfolio_words ==
    <<"portfolio", "positionen", "rendite", "performance",
      "konzentration", "diversifik", "rebalancing", "allokation",
      "meine aktien", "mein depot", "holdings", "risiko meines">>

research_words ==
    <<"kaufen", "verkaufen", "halten", "kursziel", "analyse",
      "bewertung", "fundamental", "soll ich", "lohnt sich",
      "unterbewertet", "ueberbewertet", "buy", "sell", "hold">>

\* sum(1 for w in words if w in q)
Score(words, q) == Cardinality({i \in DOMAIN words : IsSubstring(words[i], q)})

Max3(a, b, c) == IF a >= b /\ a >= c THEN a ELSE IF b >= c THEN b ELSE c

\* A fallback that prefers portfolio over news when their scores tie.
_keyword_classify_PortfolioFirst(q0) ==
    LET q               == Lower(q0)
        news_score      == Score(news_words, q)
        portfolio_score == Score(portfolio_words, q)
        research_score  == Score(research_words, q)
        max_score       == Max3(news_score, portfolio_score, research_score)
    IN  IF max_score = 0 THEN "research"
        ELSE IF portfolio_score = max_score THEN "portfolio"
        ELSE IF news_score = max_score THEN "news"
        ELSE "research"

\* A fallback without the `max_score == 0` test.
_keyword_classify_NoZeroTest(q0) ==
    LET q               == Lower(q0)
        news_score      == Score(news_words, q)
        portfolio_score == Score(portfolio_words, q)
        research_score  == Score(research_words, q)
        max_score       == Max3(news_score, portfolio_score, research_score)
    IN  IF news_score = max_score THEN "news"
        ELSE IF portfolio_score = max_score THEN "portfolio"
        ELSE "research"

\* A fallback that compares the portfolio score with the research score only.
_keyword_classify_PortfolioAboveResearch(q0) ==
    LET q               == Lower(q0)
        news_score      == Score(news_words, q)
        portfolio_score == Score(portfolio_words, q)
        research_score  == Score(research_words, q)
        max_score       == Max3(news_score, portfolio_score, research_score)
    IN  IF max_score = 0 THEN "research"
        ELSE IF news_score = max_score THEN "news"
        ELSE IF portfolio_score > research_score + 1 THEN "portfolio"
        ELSE "research"

_keyword_classify(q0) ==
    LET q               == Lower(q0)
        news_score      == Score(news_words, q)
        portfolio_score == Score(portfolio_words, q)
        research_score  == Score(research_words, q)
        max_score       == Max3(news_score, portfolio_score, research_score)
    IN  IF max_score = 0 THEN "research"
        ELSE IF news_score = max_score THEN "news"
        ELSE IF portfolio_score = max_score THEN "portfolio"
        ELSE "research"

IntentLabels == {"research", "news", "portfolio", "multi"}

\* A classifier that trusts whatever label the model sent.
classify_intent_Unvalidated(q, llm) ==
    IF llm.kind = "error" \/ llm.content = None THEN _keyword_classify(q)
    ELSE Lower(Strip(llm.content))

\* classify_intent(question), given what the classification request
\* produced: llm.kind is "error" where the request raises, else llm.content
\* is the content of the response (None where it is absent, on which
\* .strip() raises AttributeError inside the try).
classify_intent(q, llm) ==
    IF llm.kind = "error" \/ llm.content = None THEN _keyword_classify(q)
    ELSE LET label == Lower(Strip(llm.content))
         IN  IF label \in IntentLabels THEN label ELSE _keyword_classify(q)

\* chat_history[-6:]
ContextWindow == 6
\* msg['content'][:300]
ContextChars == 300

\* The first n entries instead of the last n.
LastN_Oldest(h, n) == IF Len(h) <= n THEN h ELSE SubSeq(h, 1, n)

LastN(h, n) == IF Len(h) <= n THEN h ELSE SubSeq(h, Len(h) - n + 1, Len(h))

RECURSIVE SelectRoles(_)
\* [m for m in h if m["role"] in ("user", "assistant")]
SelectRoles(h) ==
    IF h = <<>> THEN <<>>
    ELSE IF h[1].role \in {"user", "assistant"} THEN <<h[1]>> \o SelectRoles(Tail(h))
    ELSE SelectRoles(Tail(h))

ContextLine(m) ==
    (IF m.role = "user" THEN "Nutzer" ELSE "Agent") \o ": " \o Sub(m.content, 1, IF Len(m.content) < ContextChars THEN Len(m.content) ELSE ContextChars)

ChatInstructions ==
    "Anweisungen: Antworte gespraechisg aber professionell auf Deutsch. "
    \o "Nutze deine Tools, um echte Daten abzurufen, wenn relevant. "
    \o "Sei konkret mit Zahlen und Datenpunkten. "
    \o "Halte die Antwort fokussiert und praegnant (unter 500 Woerter). "
    \o "Wenn das Anlageprofil des Nutzers vorhanden ist, passe deine Antwort an seine Praeferenzen an."

\* _build_chat_task(question, agent_type, chat_history): ok is FALSE where
\* get_profile_context raises.
_build_chat_task(q, agent_type, h, file) ==
    LET ctx           == get_profile_context(file)
        recent        == SelectRoles(LastN(h, ContextWindow))
        context_lines == [i \in DOMAIN recent |-> ContextLine(recent[i])]
        task_parts    ==
            (IF ctx.text # "" THEN <<ctx.text>> ELSE <<>>)
            \o (IF context_lines # <<>>
                  THEN <<"LETZTER GESPRAECHSVERLAUF:">> \o context_lines \o <<"">>
                ELSE <<>>)
            \o <<"AKTUELLE FRAGE DES NUTZERS:", q, "", ChatInstructions>>
    IN  [ok |-> ctx.ok, text |-> IF ctx.ok THEN JoinLines(task_parts) ELSE ""]

\* agent_creators.get(intent, create_research_agent)(model=model)
CreateAgent(i) ==
    CASE i = "news"      -> create_news_agent
      [] i = "portfolio" -> create_portfolio_monitor_agent
      [] OTHER           -> create_research_agent

\* A caller that dispatches on the classifier's label as it is.
ResolveIntent_Keep(i) == i

\* `if intent == "multi": intent = "research"`
ResolveIntent(i) == IF i = "multi" THEN "research" ELSE i

ApologyPrefix == "Entschuldigung, bei der Verarbeitung deiner Frage ist ein Fehler aufgetreten: "

\* Outcome of handle_chat_message: the pair returned, or the exception
\* that left it.
Reply(text, i)      == [kind |-> "return", exc |-> "", text |-> text, intent |-> i]
ReplyRaise(exc, msg) == [kind |-> "raise", exc |-> exc, text |-> msg, intent |-> ""]

\* The caller passes a question and the chat so far.
ChatBegin(q, h) ==
    /\ hpc = "idle"
    /\ pc = "idle"
    /\ question' = q
    /\ chat_history' = h
    /\ hpc' = "classify"
    /\ UNCHANGED <<llmLabel, events, intent, task, reply>>

\* Line 198: intent = classify_intent(question)
Classify(llm) ==
    /\ hpc = "classify"
    /\ llmLabel' = (IF llm.kind = "error" THEN "<error>" ELSE llm.content)
    /\ intent' = classify_intent(question, llm)
    /\ hpc' = "classified"
    /\ events' = Append(events, "classify_intent")
    /\ UNCHANGED <<question, chat_history, task, reply>>

\* Lines 200-215: resolve the intent, create the agent, build the task and
\* enter agent.execute.  Building the task is outside the try.
Dispatch ==
    LET i == ResolveIntent(intent)
        t == _build_chat_task(question, i, chat_history, profileFile)
    IN  /\ hpc = "classified"
        /\ intent' = i
        /\ IF t.ok
               THEN /\ task' = t.text
                    /\ hpc' = "executing"
                    /\ ExecuteBegin(CreateAgent(i), t.text)
                    /\ events' = events \o <<"_build_chat_task", "execute " \o CreateAgent(i).tool_group>>
                    /\ UNCHANGED reply
           ELSE /\ hpc' = "escaped"
                /\ reply' = ReplyRaise("TypeError", "'list' object is not a mapping")
                /\ events' = Append(events, "_build_chat_task")
                /\ UNCHANGED <<task, agentVars>>
        /\ UNCHANGED <<question, chat_history, llmLabel>>

\* An except clause that answers with a fixed text and the router as agent.
ChatReturn_Generic ==
    /\ hpc = "executing"
    /\ pc \in {"done", "raised"}
    /\ reply' = IF result.kind = "return" THEN Reply(result.value, intent)
                ELSE Reply("Entschuldigung, es ist ein Fehler aufgetreten.", "router")
    /\ hpc' = "returned"
    /\ UNCHANGED <<question, chat_history, llmLabel, events, intent, task>>

\* Lines 214-220: execute has returned or raised.
ChatReturn ==
    /\ hpc = "executing"
    /\ pc \in {"done", "raised"}
    /\ reply' = IF result.kind = "return" THEN Reply(result.value, intent)
                ELSE Reply(ApologyPrefix \o result.value, intent)
    /\ hpc' = "returned"
    /\ UNCHANGED <<question, chat_history, llmLabel, events, intent, task>>

(***************************************************************************)
(* Specification of one call of handle_chat_message.                       *)
(***************************************************************************)
ChatQuestions ==
    { "What are my portfolio's risks?",
      "Gibt es News zu AAPL?",
      "Soll ich AAPL kaufen?",
      "Aktuelle Rendite?",
      "Wie ist das Wetter?" }

HistoryEntry(role, content) == [role |-> role, content |-> content]

ChatHistories ==
    { <<>>,
      <<HistoryEntry("user", "Was macht Apple?"), HistoryEntry("assistant", "Apple baut das iPhone.")>>,
      <<HistoryEntry("system", "Verlauf geloescht."), HistoryEntry("user", "Hallo")>>,
      [i \in 1..7 |-> HistoryEntry(IF i % 2 = 1 THEN "user" ELSE "assistant",
                                   "Nachricht " \o ToString(i))] }

\* What the classification request may produce.
LlmOutcomes ==
    {Response("error", None, <<>>)}
    \cup {Response("final", c, <<>>) :
            c \in {"news", " Portfolio\n", "RESEARCH", "multi", "Multi ", "news.", "banana", "", None}}

\* Tool calls requested inside a chat: one call per response, with good
\* arguments or with arguments cut off.
ChatCallShapes ==
    { <<"get_stock_data", JsonDumps(<<<<"ticker", "AAPL">>>>)>>,
      <<"get_stock_data", "{" \o Quote \o "ticker" \o Quote \o ": " \o Quote \o "AA">> }

ChatResponses == [i \in 0..MaxIter |-> Responses(i + 1, ChatCallShapes, 1)]

InitChat ==
    /\ profileFile \in ProfileFiles
    /\ AgentIdle
    /\ ChatIdle
    /\ LogIdle
    /\ ToolsIdle
    /\ FxIdle
    /\ CrewIdle
    /\ PfIdle

ChatCall ==
    /\ \E q \in ChatQuestions, h \in ChatHistories : ChatBegin(q, h)
    /\ UNCHANGED <<profileFile, agentVars>>
    /\ UNCHANGED <<logVars, toolVars, fxVars, crewVars, pfVars>>

ClassifyStep ==
    /\ \E llm \in LlmOutcomes : Classify(llm)
    /\ UNCHANGED <<profileFile, agentVars>>
    /\ UNCHANGED <<logVars, toolVars, fxVars, crewVars, pfVars>>

DispatchStep ==
    /\ Dispatch
    /\ UNCHANGED profileFile
    /\ UNCHANGED <<logVars, toolVars, fxVars, crewVars, pfVars>>

ChatCompletionStep ==
    /\ hpc = "executing"
    /\ \E r \in ChatResponses[iteration] : Complete(r)
    /\ UNCHANGED <<profileFile, chatVars>>
    /\ UNCHANGED <<logVars, toolVars, fxVars, crewVars, pfVars>>

ChatToolStep ==
    /\ hpc = "executing"
    /\ \E sourceOk \in BOOLEAN : ExecuteToolCall(sourceOk)
    /\ UNCHANGED <<profileFile, chatVars>>
    /\ UNCHANGED <<logVars, toolVars, fxVars, crewVars, pfVars>>

ChatExhaustedStep ==
    /\ hpc = "executing"
    /\ Exhausted
    /\ UNCHANGED <<profileFile, chatVars>>
    /\ UNCHANGED <<logVars, toolVars, fxVars, crewVars, pfVars>>

ChatReturnStep ==
    /\ ChatReturn
    /\ UNCHANGED <<profileFile, agentVars>>
    /\ UNCHANGED <<logVars, toolVars, fxVars, crewVars, pfVars>>

NextChat ==
    \/ ChatCall
    \/ ClassifyStep
    \/ DispatchStep
    \/ ChatCompletionStep
    \/ ChatToolStep
    \/ ChatExhaustedStep
    \/ ChatReturnStep

SpecChat == InitChat /\ [][NextChat]_vars

(***************************************************************************)
(* Specification of direct calls of _keyword_classify: questions of up to  *)
(* MaxWords words, each a keyword of one of the three lists (in lower or   *)
(* mixed case, one of them holding a keyword of another list) or no        *)
(* keyword at all.                                                         *)
(***************************************************************************)
KeywordFragments ==
    {"news", "Heute", "portfolio", "rendite", "Meine Aktien", "kaufen", "holdings", "Wetter"}

\* " ".join(ws)
RECURSIVE JoinWords(_)
JoinWords(ws) ==
    IF ws = <<>> THEN ""
    ELSE IF Len(ws) = 1 THEN ws[1]
    ELSE ws[1] \o " " \o JoinWords(Tail(ws))

KeywordQuestions ==
    {JoinWords(ws) : ws \in UNION {[1..n -> KeywordFragments] : n \in 0..MaxWords}}

InitKeyword ==
    /\ profileFile = [state |-> "missing", data |-> <<>>]
    /\ AgentIdle
    /\ ChatIdle
    /\ LogIdle
    /\ ToolsIdle
    /\ FxIdle
    /\ CrewIdle
    /\ PfIdle

KeywordCall ==
    /\ hpc = "idle"
    /\ \E q \in KeywordQuestions : question' = q
    /\ hpc' = "keyword"
    /\ UNCHANGED <<chat_history, llmLabel, events, intent, task, reply>>
    /\ UNCHANGED <<profileFile, agentVars, logVars, toolVars, fxVars, crewVars, pfVars>>

KeywordReturn ==
    /\ hpc = "keyword"
    /\ intent' = _keyword_classify(question)
    /\ hpc' = "keyword_done"
    /\ UNCHANGED <<question, chat_history, llmLabel, events, task, reply>>
    /\ UNCHANGED <<profileFile, agentVars, logVars, toolVars, fxVars, crewVars, pfVars>>

NextKeyword ==
    \/ KeywordCall
    \/ KeywordReturn

SpecKeyword == InitKeyword /\ [][NextKeyword]_vars

(***************************************************************************)
(* Specification of direct calls of _build_chat_task: histories of up to   *)
(* MaxHist entries whose contents name their position, with roles          *)
(* alternating between user and assistant, at most one entry of another    *)
(* role, and at most one entry of 300 or of more than 300 characters.      *)
(***************************************************************************)
Filler10 == "abcdefghij"

RECURSIVE Repeat(_, _)
Repeat(s, n) == IF n = 0 THEN "" ELSE s \o Repeat(s, n - 1)

\* A text of exactly len characters (len >= 10) that starts with the
\* entry's number and ends with "#".
LongContent(i, len) ==
    LET head == "N" \o ToString(i) \o ":"
        fill == Repeat(Filler10, 31)
    IN  head \o Sub(fill, 1, len - Len(head) - 1) \o "#"

\* first: the role of entry 1; sys: the position of the entry with role
\* "system" (0: none); long: the position of the long entry (0: none) and
\* len its length.
TaskHistory(n, first, sys, long, len) ==
    [i \in 1..n |->
        HistoryEntry(IF i = sys THEN "system"
                     ELSE IF (i % 2 = 1) = (first = "user") THEN "user" ELSE "assistant",
                     IF i = long THEN LongContent(i, len)
                     ELSE "Nachricht " \o ToString(i))]

TaskHistories ==
    {TaskHistory(n, first, sys, long, len) :
        n \in 0..MaxHist, first \in {"user", "assistant"}, sys \in 0..MaxHist,
        long \in 0..MaxHist, len \in {ContextChars, ContextChars + 3}}

TaskQuestions == {"Soll ich AAPL kaufen?"}

TaskProfileFiles ==
    { [state |-> "missing", data |-> <<>>],
      [state |-> "nonobject", data |-> <<>>],
      [state |-> "object", data |-> [risk_tolerance |-> "Hoch"]] }

InitTask ==
    /\ profileFile \in TaskProfileFiles
    /\ AgentIdle
    /\ ChatIdle
    /\ LogIdle
    /\ ToolsIdle
    /\ FxIdle
    /\ CrewIdle
    /\ PfIdle

TaskCall ==
    /\ hpc = "idle"
    /\ \E q \in TaskQuestions, h \in TaskHistories :
           /\ question' = q
           /\ chat_history' = h
    /\ intent' = "research"
    /\ hpc' = "build"
    /\ UNCHANGED <<llmLabel, events, task, reply>>
    /\ UNCHANGED <<profileFile, agentVars, logVars, toolVars, fxVars, crewVars, pfVars>>

TaskReturn ==
    LET t == _build_chat_task(question, intent, chat_history, profileFile)
    IN  /\ hpc = "build"
        /\ IF t.ok
               THEN /\ task' = t.text
                    /\ hpc' = "built"
                    /\ UNCHANGED reply
           ELSE /\ hpc' = "escaped"
                /\ reply' = ReplyRaise("TypeError", "'list' object is not a mapping")
                /\ UNCHANGED task
        /\ UNCHANGED <<question, chat_history, llmLabel, events, intent>>
        /\ UNCHANGED <<profileFile, agentVars, logVars, toolVars, fxVars, crewVars, pfVars>>

NextTask ==
    \/ TaskCall
    \/ TaskReturn

SpecTask == InitTask /\ [][NextTask]_vars

(***************************************************************************)
(* The chat log (chat_handler.py, lines 35-68) and a specification of any  *)
(* sequence of its four operations on one session's chat list.  The file   *)
(* is missing, holds text that is not JSON, or holds a list; its entries   *)
(* are kept as the JSON text of each record.                               *)
(***************************************************************************)
\* config.MAX_CHAT_MESSAGES
MAX_CHAT_MESSAGES == 50

\* datetime.now().isoformat(); the model's messages share one instant.
Timestamp == "2025-01-01T12:00:00"

\* add_message(history, role, content, agent_type): agent_type is "" for
\* None, and the key is set only `if agent_type`.
add_message(history, role, content, agent_type) ==
    Append(history,
           IF agent_type # ""
               THEN [role |-> role, content |-> content, timestamp |-> Timestamp, agent_type |-> agent_type]
           ELSE [role |-> role, content |-> content, timestamp |-> Timestamp])

\* json.dump of one record of the list
DumpEntry(m) ==
    JsonDumps(<<<<"role", m.role>>, <<"content", m.content>>, <<"timestamp", m.timestamp>>>>
              \o (IF "agent_type" \in DOMAIN m THEN <<<<"agent_type", m.agent_type>>>> ELSE <<>>))

\* json.load of one record of the list
LoadEntry(text) ==
    LET v == JsonLoads(text)
    IN  [k \in JsonKeys(v) |-> (CHOOSE pr \in v.pairs : pr[1] = k)[2]]

\* A save that writes the whole list.
save_chat_history_Untrimmed(history) ==
    [state |-> "list", entries |-> [i \in DOMAIN history |-> DumpEntry(history[i])]]

\* save_chat_history(history): the file written
save_chat_history(history) ==
    LET trimmed == LastN(history, MAX_CHAT_MESSAGES)
    IN  [state |-> "list", entries |-> [i \in DOMAIN trimmed |-> DumpEntry(trimmed[i])]]

\* clear_chat_history(): the file written
clear_chat_history == save_chat_history(<<>>)

\* load_chat_history(): the list returned for a file
load_chat_history(file) ==
    IF file.state \in {"missing", "invalid"} THEN <<>>
    ELSE LET history == [i \in DOMAIN file.entries |-> LoadEntry(file.entries[i])]
         IN  LastN(history, MAX_CHAT_MESSAGES)

InitLog ==
    /\ profileFile = [state |-> "missing", data |-> <<>>]
    /\ AgentIdle
    /\ ChatIdle
    /\ chatFile \in {[state |-> st, entries |-> <<>>] : st \in {"missing", "invalid"}}
    /\ chat_messages = <<>>
    /\ lastSaved = <<>>
    /\ logOp = "none"
    /\ ToolsIdle
    /\ FxIdle
    /\ CrewIdle
    /\ PfIdle

\* The session appends the user's question, or the answer to it.
LogAdd ==
    /\ Len(chat_messages) < MaxLog
    /\ chat_messages' =
           IF chat_messages = <<>> \/ chat_messages[Len(chat_messages)].role = "assistant"
               THEN add_message(chat_messages, "user", "Frage", "")
           ELSE add_message(chat_messages, "assistant", "Antwort", "research")
    /\ logOp' = "add"
    /\ UNCHANGED <<chatFile, lastSaved>>
    /\ UNCHANGED <<profileFile, agentVars, chatVars, toolVars, fxVars, crewVars, pfVars>>

LogSave ==
    /\ chatFile' = save_chat_history(chat_messages)
    /\ lastSaved' = chat_messages
    /\ logOp' = "save"
    /\ UNCHANGED chat_messages
    /\ UNCHANGED <<profileFile, agentVars, chatVars, toolVars, fxVars, crewVars, pfVars>>

LogLoad ==
    /\ chat_messages' = load_chat_history(chatFile)
    /\ logOp' = "load"
    /\ UNCHANGED <<chatFile, lastSaved>>
    /\ UNCHANGED <<profileFile, agentVars, chatVars, toolVars, fxVars, crewVars, pfVars>>

LogClear ==
    /\ chatFile' = clear_chat_history
    /\ lastSaved' = <<>>
    /\ logOp' = "clear"
    /\ UNCHANGED chat_messages
    /\ UNCHANGED <<profileFile, agentVars, chatVars, toolVars, fxVars, crewVars, pfVars>>

NextLog ==
    \/ LogAdd
    \/ LogSave
    \/ LogLoad
    \/ LogClear

SpecLog == InitLog /\ [][NextLog]_vars

(***************************************************************************)
(* The five tool functions (tools.py).  JSON values are tagged: a string,  *)
(* a literal written without quotes (number, true, false, null), a list,   *)
(* or an object given as a sequence of <<key, value>> pairs.  Amounts are  *)
(* in cents and the exchange rate in 1/10000.                              *)
(***************************************************************************)
JStr(x)    == [t |-> "str",  v |-> x]
JRaw(x)    == [t |-> "raw",  v |-> x]
JNum(n)    == [t |-> "raw",  v |-> ToString(n)]
JList(xs)  == [t |-> "list", v |-> xs]
JObj(kvs)  == [t |-> "obj",  v |-> kvs]

\* json.dumps(x) in the layout of the default separators
RECURSIVE JsonDump(_)
JsonDump(x) ==
    LET RECURSIVE Items(_)
        Items(xs) == IF xs = <<>> THEN ""
                     ELSE JsonDump(xs[1]) \o (IF Len(xs) > 1 THEN ", " ELSE "") \o Items(Tail(xs))
        RECURSIVE Members(_)
        Members(kvs) == IF kvs = <<>> THEN ""
                        ELSE Quote \o kvs[1][1] \o Quote \o ": " \o JsonDump(kvs[1][2])
                             \o (IF Len(kvs) > 1 THEN ", " ELSE "") \o Members(Tail(kvs))
    IN  CASE x.t = "str"  -> Quote \o x.v \o Quote
          [] x.t = "raw"  -> x.v
          [] x.t = "list" -> "[" \o Items(x.v) \o "]"
          [] x.t = "obj"  -> "{" \o Members(x.v) \o "}"

\* c.upper() for one character
UpperChar(c) ==
    IF \E i \in 1..Len(LowerLetters) : Ch(LowerLetters, i) = c
        THEN Ch(UpperLetters, CHOOSE i \in 1..Len(LowerLetters) : Ch(LowerLetters, i) = c)
    ELSE c

\* s.upper()
RECURSIVE Upper(_)
Upper(s) == IF s = "" THEN "" ELSE UpperChar(Ch(s, 1)) \o Upper(Sub(s, 2, Len(s)))

\* A ticker argument that is no string (the model sent a number).
NotAString == "<int>"

\* What yfinance does for a ticker: "data" it answers with quotes, info and
\* news; "empty" it answers without raising but has nothing (no price, an
\* empty info dict, no news); "raises" every access raises (unreachable).
Sources == {"data", "empty", "raises"}

\* currency_converter.FALLBACK_RATE, 0.92
FALLBACK_RATE == 9200

\* The rate the remote service answers with when it is reachable, 0.85.
LiveRate == 8500

\* get_usd_to_eur_rate() as the tools see it: it never raises.
ToolRate(source) == IF source = "data" THEN LiveRate ELSE FALLBACK_RATE

\* price in cents of the native currency USD, converted with the rate
ToEur(cents, rate) == (cents * rate) \div 10000

\* _get_price_robust(stock, ticker): every strategy is wrapped in a try, so
\* it returns None (0) unless a price arrives.
_get_price_robust(source) == IF source = "data" THEN 18550 ELSE 0

ErrorObject(msg) == JsonDump(JObj(<<<<"error", JStr(msg)>>>>))

AttributeErrorText == "'int' object has no attribute 'upper'"

SourceErrorText == "HTTPSConnectionPool: Max retries exceeded"

\* get_stock_data(ticker), lines 61-153
get_stock_data(ticker, source) ==
    IF ticker = NotAString
        THEN ErrorObject("Error fetching stock data: " \o AttributeErrorText)
    ELSE LET t     == Strip(Upper(ticker))
             price == _get_price_robust(source)
             rate  == ToolRate(source)
             na    == JStr("N/A")
         IN  IF price = 0
                 THEN ErrorObject("No price data found for '" \o t \o "'.")
             ELSE JsonDump(JObj(<<
                 <<"ticker", JStr(t)>>,
                 <<"name", JStr("Apple Inc.")>>,
                 <<"price_eur", JNum(ToEur(price, rate))>>,
                 <<"price_native", JNum(price)>>,
                 <<"native_currency", JStr("USD")>>,
                 <<"currency", JStr("EUR")>>,
                 <<"exchange_rate", JNum(rate)>>,
                 <<"needs_conversion", JRaw("true")>>,
                 <<"market_cap_eur", na>>,
                 <<"pe_ratio", na>>,
                 <<"forward_pe", na>>,
                 <<"eps_eur", na>>,
                 <<"sector", JStr("Technology")>>,
                 <<"industry", na>>,
                 <<"52_week_high_eur", na>>,
                 <<"52_week_low_eur", na>>,
                 <<"50_day_avg_eur", na>>,
                 <<"200_day_avg_eur", na>>,
                 <<"volume", na>>,
                 <<"avg_volume", na>>,
                 <<"dividend_yield", na>>,
                 <<"beta", na>>,
                 <<"revenue_eur", na>>,
                 <<"profit_margin", na>>,
                 <<"debt_to_equity", na>>,
                 <<"return_on_equity", na>>,
                 <<"free_cash_flow_eur", na>>,
                 <<"note", JStr("Alle Preise von USD in EUR umgerechnet (Kurs: 1 USD = "
                                \o ToString(rate) \o " EUR)")>> >>))

\* The object get_company_info builds from the info dict (lines 165-181).
CompanyData(ticker, source) ==
    LET has == source = "data"
        na  == JStr("N/A")
    IN  <<  <<"ticker", JStr(Upper(ticker))>>,
            <<"name", IF has THEN JStr("Apple Inc.") ELSE na>>,
            <<"summary", IF has THEN JStr("Apple designs phones.") ELSE JStr("No summary available.")>>,
            <<"website", IF has THEN JStr("https://www.apple.com") ELSE na>>,
            <<"employees", IF has THEN JNum(164000) ELSE na>>,
            <<"headquarters", IF has THEN JStr("Cupertino, CA, United States") ELSE JStr(", , ")>>,
            <<"sector", IF has THEN JStr("Technology") ELSE na>>,
            <<"industry", IF has THEN JStr("Consumer Electronics") ELSE na>> >>
        \o (IF has
              THEN << <<"key_officers",
                        JList(<<JObj(<<<<"name", JStr("Tim Cook")>>, <<"title", JStr("CEO")>>>>)>>)>> >>
            ELSE <<>>)

\* An except clause that logs and raises again.
get_company_info_Reraise(ticker, source) ==
    IF ticker = NotAString THEN "<raise AttributeError>"
    ELSE IF source = "raises" THEN "<raise ConnectionError>"
    ELSE JsonDump(JObj(CompanyData(ticker, source)))

\* get_company_info(ticker), lines 156-187
get_company_info(ticker, source) ==
    IF ticker = NotAString
        THEN ErrorObject("Error fetching company info: " \o AttributeErrorText)
    ELSE IF source = "raises"
        THEN ErrorObject("Error fetching company info: " \o SourceErrorText)
    ELSE JsonDump(JObj(CompanyData(ticker, source)))

\* search_news(ticker), lines 194-233
search_news(ticker, source) ==
    IF ticker = NotAString
        THEN ErrorObject("Error fetching news: " \o AttributeErrorText)
    ELSE IF source = "raises"
        THEN ErrorObject("Error fetching news: " \o SourceErrorText)
    ELSE IF source = "empty"
        THEN JsonDump(JObj(<< <<"ticker", JStr(Upper(ticker))>>,
                              <<"news", JList(<<>>)>>,
                              <<"message", JStr("No recent news found.")>> >>))
    ELSE JsonDump(JObj(<<
             <<"ticker", JStr(Upper(ticker))>>,
             <<"news_count", JNum(1)>>,
             <<"articles", JList(<<JObj(<<
                   <<"title", JStr("Apple stellt neues iPhone vor")>>,
                   <<"publisher", JStr("Reuters")>>,
                   <<"link", JStr("https://example.com/a")>>,
                   <<"published", JStr("2025-01-01T08:00:00Z")>>,
                   <<"summary", JStr("")>> >>)>>)>> >>))

\* A holding of portfolio.json as a JSON object.
HoldingObject(h) ==
    LET InHolding(k) == k \in DOMAIN h
        keys == SelectSeq(<<"ticker", "shares", "cost_basis_eur", "date_added">>, InHolding)
    IN  JObj([i \in DOMAIN keys |->
                 <<keys[i], IF keys[i] \in {"ticker", "date_added"} THEN JStr(h[keys[i]])
                            ELSE JNum(h[keys[i]])>>])

PortfolioReadErrorText(file) ==
    IF file.state = "invalid" THEN "Expecting value: line 1 column 1 (char 0)"
    ELSE "[Errno 13] Permission denied: 'portfolio.json'"

\* get_portfolio_data(), lines 240-252
get_portfolio_data(file) ==
    IF file.state = "missing"
        THEN JsonDump(JObj(<< <<"holdings", JList(<<>>)>>,
                              <<"message", JStr("No portfolio file found.")>> >>))
    ELSE IF file.state \in {"invalid", "unreadable"}
        THEN ErrorObject("Error reading portfolio: " \o PortfolioReadErrorText(file))
    ELSE IF file.holdings = <<>>
        THEN JsonDump(JObj(<< <<"holdings", JList(<<>>)>>,
                              <<"message", JStr("Portfolio is empty.")>> >>))
    ELSE JsonDump(JObj(<<
             <<"holdings", JList([i \in DOMAIN file.holdings |-> HoldingObject(file.holdings[i])])>>,
             <<"count", JNum(Len(file.holdings))>> >>))

\* One entry of `results` (lines 275-312) for a holding with a ticker.
HoldingResult(h, source) ==
    LET price   == _get_price_robust(source)
        current == ToEur(price, ToolRate(source))
        cost    == h.cost_basis_eur
    IN  IF price = 0
            THEN JObj(<< <<"ticker", JStr(h.ticker)>>, <<"error", JStr("Could not fetch price")>> >>)
        ELSE JObj(<<
            <<"ticker", JStr(h.ticker)>>,
            <<"shares", JNum(h.shares)>>,
            <<"cost_basis_eur", JNum(cost)>>,
            <<"current_price_eur", JNum(current)>>,
            <<"native_currency", JStr("USD")>>,
            <<"cost_total_eur", JNum(h.shares * cost)>>,
            <<"current_total_eur", JNum(h.shares * current)>>,
            <<"gain_loss_eur", JNum(h.shares * current - h.shares * cost)>>,
            <<"return_pct", JNum(IF cost > 0 THEN ((current - cost) * 100) \div cost ELSE 0)>> >>)

RECURSIVE SumSeq(_)
SumSeq(xs) == IF xs = <<>> THEN 0 ELSE xs[1] + SumSeq(Tail(xs))

\* calculate_returns(), lines 255-335
calculate_returns(file, source) ==
    IF file.state = "missing"
        THEN JsonDump(JObj(<< <<"message", JStr("No portfolio file found.")>> >>))
    ELSE IF file.state \in {"invalid", "unreadable"}
        THEN ErrorObject("Error calculating returns: " \o PortfolioReadErrorText(file))
    ELSE IF file.holdings = <<>>
        THEN JsonDump(JObj(<< <<"message", JStr("Portfolio is empty.")>> >>))
    ELSE IF \E i \in DOMAIN file.holdings : "ticker" \notin DOMAIN file.holdings[i]
        THEN ErrorObject("Error calculating returns: 'ticker'")
    ELSE LET hs      == file.holdings
             priced  == _get_price_robust(source) # 0
             current == ToEur(_get_price_robust(source), ToolRate(source))
             total_cost    == IF priced THEN SumSeq([i \in DOMAIN hs |-> hs[i].shares * hs[i].cost_basis_eur]) ELSE 0
             total_current == IF priced THEN SumSeq([i \in DOMAIN hs |-> hs[i].shares * current]) ELSE 0
         IN  JsonDump(JObj(<<
                 <<"holdings", JList([i \in DOMAIN hs |-> HoldingResult(hs[i], source)])>>,
                 <<"currency", JStr("EUR")>>,
                 <<"exchange_rate", JNum(ToolRate(source))>>,
                 <<"summary", JObj(<<
                       <<"total_invested_eur", JNum(total_cost)>>,
                       <<"total_current_value_eur", JNum(total_current)>>,
                       <<"total_gain_loss_eur", JNum(total_current - total_cost)>>,
                       <<"total_return_pct",
                         JNum(IF total_cost > 0 THEN ((total_current - total_cost) * 100) \div total_cost ELSE 0)>> >>)>>,
                 <<"note", JStr("Alle Werte in EUR (automatische Waehrungserkennung aktiv)")>>,
                 <<"timestamp", JStr(Timestamp)>> >>))

\* TOOL_FUNCTIONS[fn](**args) for bound arguments
CallTool(fn, ticker, source, file) ==
    CASE fn = "get_stock_data"     -> get_stock_data(ticker, source)
      [] fn = "get_company_info"   -> get_company_info(ticker, source)
      [] fn = "search_news"        -> search_news(ticker, source)
      [] fn = "get_portfolio_data" -> get_portfolio_data(file)
      [] fn = "calculate_returns"  -> calculate_returns(file, source)

(***************************************************************************)
(* Specification of direct calls of the tools.                             *)
(***************************************************************************)
Holding(ticker, shares, cost) ==
    [ticker |-> ticker, shares |-> shares, cost_basis_eur |-> cost, date_added |-> "2025-01-01"]

PortfolioFiles ==
    { [state |-> st, holdings |-> <<>>] : st \in {"missing", "invalid", "unreadable", "list"} }
    \cup { [state |-> "list", holdings |-> hs] :
             hs \in { <<Holding("AAPL", 10, 15000)>>,
                      <<Holding("AAPL", 10, 15000), Holding("MSFT", 2, 0)>>,
                      <<[shares |-> 3, cost_basis_eur |-> 100]>> } }

ToolTickers == {"AAPL", " aapl ", NotAString}

InitTools ==
    /\ profileFile = [state |-> "missing", data |-> <<>>]
    /\ AgentIdle
    /\ ChatIdle
    /\ LogIdle
    /\ portfolioFile \in PortfolioFiles
    /\ toolCall = NoToolCall
    /\ toolOut = NoResult
    /\ FxIdle
    /\ CrewIdle
    /\ PfIdle

\* The loop calls a registered tool with bound arguments.
ToolInvoke ==
    /\ toolCall = NoToolCall
    /\ \E fn \in TOOL_FUNCTIONS, src \in Sources :
          \E tk \in (IF ToolParams(fn) = {} THEN {""} ELSE ToolTickers) :
              toolCall' = [fn |-> fn, ticker |-> tk, source |-> src]
    /\ UNCHANGED <<portfolioFile, toolOut>>
    /\ UNCHANGED <<profileFile, agentVars, chatVars, logVars, fxVars, crewVars, pfVars>>

\* The tool returns, or an exception leaves it.
ToolReturn ==
    LET out == CallTool(toolCall.fn, toolCall.ticker, toolCall.source, portfolioFile)
    IN  /\ toolCall # NoToolCall
        /\ toolOut = NoResult
        /\ toolOut' = IF Sub(out, 1, 7) = "<raise " THEN Raise(Sub(out, 8, Len(out) - 1), "")
                      ELSE Return(out)
        /\ UNCHANGED <<portfolioFile, toolCall>>
        /\ UNCHANGED <<profileFile, agentVars, chatVars, logVars, fxVars, crewVars, pfVars>>

NextTools ==
    \/ ToolInvoke
    \/ ToolReturn

SpecTools == InitTools /\ [][NextTools]_vars

(***************************************************************************)
(* Portfolio management (tools.py, lines 422-473).  Shares are whole       *)
(* numbers held as floats; a cost basis is an integer number of 0.0001     *)
(* EUR, the precision round(..., 4) keeps.                                 *)
(***************************************************************************)
\* load_portfolio(), lines 422-428: a missing or undecodable file is [].
load_portfolio(file) == IF file.state = "list" THEN file.holdings ELSE <<>>

\* round(num / den, 4) in units of 0.0001: the nearest unit, halves to even
RoundDiv(num, den) ==
    LET q == num \div den
        r == num % den
    IN  IF 2 * r < den THEN q
        ELSE IF 2 * r > den THEN q + 1
        ELSE IF q % 2 = 0 THEN q ELSE q + 1

\* f"{c:.2f}" of a cost basis
Fixed2(c) ==
    LET cents == RoundDiv(c, 100)
    IN  ToString(cents \div 100) \o "." \o ToString((cents % 100) \div 10) \o ToString(cents % 10)

\* str() of a whole-numbered float
FloatStr(n) == ToString(n) \o ".0"

\* An update that overwrites the position instead of adding to it.
add_to_portfolio_Replace(portfolio, ticker0, shares, cost_basis_eur) ==
    LET ticker == Strip(Upper(ticker0))
        IsTicker(h) == h.ticker = ticker
    IN  IF SelectSeq(portfolio, IsTicker) # <<>>
            THEN LET i == CHOOSE k \in DOMAIN portfolio :
                              /\ portfolio[k].ticker = ticker
                              /\ \A j \in 1..(k - 1) : portfolio[j].ticker # ticker
                     h == [portfolio[i] EXCEPT !.shares = shares, !.cost_basis_eur = cost_basis_eur]
                 IN  [portfolio |-> [portfolio EXCEPT ![i] = h],
                      saved     |-> TRUE,
                      ret       |-> ticker \o " aktualisiert: " \o FloatStr(shares)
                                    \o " Anteile zu €" \o Fixed2(cost_basis_eur) \o " Durchschnitt"]
        ELSE [portfolio |-> Append(portfolio, Holding(ticker, shares, cost_basis_eur)),
              saved     |-> TRUE,
              ret       |-> ticker \o " hinzugefuegt: " \o FloatStr(shares)
                            \o " Anteile zu €" \o Fixed2(cost_basis_eur)]

\* add_to_portfolio(ticker, shares, cost_basis_eur), lines 440-462, on the
\* list loaded at line 439: the list saved and the string returned.  The
\* first holding of the ticker is updated; without one a holding is appended.
add_to_portfolio(portfolio, ticker0, shares, cost_basis_eur) ==
    LET ticker == Strip(Upper(ticker0))
        IsTicker(h) == h.ticker = ticker
    IN  IF SelectSeq(portfolio, IsTicker) # <<>>
            THEN LET i == CHOOSE k \in DOMAIN portfolio :
                              /\ portfolio[k].ticker = ticker
                              /\ \A j \in 1..(k - 1) : portfolio[j].ticker # ticker
                     old_shares == portfolio[i].shares
                     old_cost   == portfolio[i].cost_basis_eur
                     new_total  == old_shares + shares
                     h == [portfolio[i] EXCEPT
                              !.cost_basis_eur = RoundDiv(old_shares * old_cost + shares * cost_basis_eur, new_total),
                              !.shares = new_total]
                 IN  [portfolio |-> [portfolio EXCEPT ![i] = h],
                      saved     |-> TRUE,
                      ret       |-> ticker \o " aktualisiert: " \o FloatStr(new_total)
                                    \o " Anteile zu €" \o Fixed2(h.cost_basis_eur) \o " Durchschnitt"]
        ELSE [portfolio |-> Append(portfolio, Holding(ticker, shares, cost_basis_eur)),
              saved     |-> TRUE,
              ret       |-> ticker \o " hinzugefuegt: " \o FloatStr(shares)
                            \o " Anteile zu €" \o Fixed2(cost_basis_eur)]

\* A removal that drops only the first holding of the ticker.
remove_from_portfolio_First(portfolio, ticker0) ==
    LET ticker == Strip(Upper(ticker0))
        first  == {k \in DOMAIN portfolio :
                      /\ portfolio[k].ticker = ticker
                      /\ \A j \in 1..(k - 1) : portfolio[j].ticker # ticker}
        Keep(k) == k \notin first
        kept   == SelectSeq([k \in DOMAIN portfolio |-> k], Keep)
    IN  IF first = {}
            THEN [portfolio |-> portfolio, saved |-> FALSE,
                  ret |-> ticker \o " nicht im Portfolio gefunden."]
        ELSE [portfolio |-> [k \in DOMAIN kept |-> portfolio[kept[k]]], saved |-> TRUE,
              ret |-> ticker \o " aus dem Portfolio entfernt."]

\* remove_from_portfolio(ticker), lines 468-473, on the list loaded at
\* line 467.
remove_from_portfolio(portfolio, ticker0) ==
    LET ticker == Strip(Upper(ticker0))
        Other(h) == h.ticker # ticker
        new_portfolio == SelectSeq(portfolio, Other)
    IN  IF Len(new_portfolio) = Len(portfolio)
            THEN [portfolio |-> portfolio, saved |-> FALSE,
                  ret |-> ticker \o " nicht im Portfolio gefunden."]
        ELSE [portfolio |-> new_portfolio, saved |-> TRUE,
              ret |-> ticker \o " aus dem Portfolio entfernt."]

PwSet(t, r) == pw' = [pw EXCEPT ![t] = r]

\* A session calls add_to_portfolio or remove_from_portfolio.
PwCall(t, op, ticker, shares, cost_basis_eur) ==
    /\ pw[t].pc \in {"idle", "done"}
    /\ ops < MaxOps
    /\ ops' = ops + 1
    /\ pw' = [u \in Writers |->
                IF u = t THEN [PwIdle EXCEPT !.pc = "called", !.op = op, !.ticker = ticker,
                                             !.shares = shares, !.cost_basis_eur = cost_basis_eur]
                ELSE [pw[u] EXCEPT !.over = @ \ {t}]]
    /\ UNCHANGED portfolioFile

\* Lines 439 and 467: portfolio = load_portfolio()
PwLoad(t) ==
    /\ pw[t].pc = "called"
    /\ PwSet(t, [pw[t] EXCEPT !.pc = "loaded", !.portfolio = load_portfolio(portfolioFile)])
    /\ UNCHANGED <<portfolioFile, ops>>

\* What the call makes of the list it loaded.
PwOutcome(r) ==
    IF r.op = "add" THEN add_to_portfolio(r.portfolio, r.ticker, r.shares, r.cost_basis_eur)
    ELSE remove_from_portfolio(r.portfolio, r.ticker)

\* A save that reads the file again and applies the change to what is there.
PwSave_Reload(t) ==
    LET out == PwOutcome([pw[t] EXCEPT !.portfolio = load_portfolio(portfolioFile)])
    IN  /\ pw[t].pc = "loaded"
        /\ portfolioFile' = IF out.saved THEN [state |-> "list", holdings |-> out.portfolio]
                            ELSE portfolioFile
        /\ pw' = [u \in Writers |->
                    IF u = t THEN [pw[t] EXCEPT !.pc = "done", !.ret = out.ret, !.wrote = out.saved]
                    ELSE IF out.saved /\ pw[u].pc = "loaded"
                        THEN [pw[u] EXCEPT !.over = @ \cup {t}]
                    ELSE pw[u]]
        /\ UNCHANGED ops

\* The rest of the call: the list is changed, save_portfolio (lines 431-434)
\* writes the whole file where the code reaches it, and the string is
\* returned.  The write is taken as one step.
PwSave(t) ==
    LET out == PwOutcome(pw[t])
    IN  /\ pw[t].pc = "loaded"
        /\ portfolioFile' = IF out.saved THEN [state |-> "list", holdings |-> out.portfolio]
                            ELSE portfolioFile
        /\ pw' = [u \in Writers |->
                    IF u = t THEN [pw[t] EXCEPT !.pc = "done", !.ret = out.ret, !.wrote = out.saved]
                    ELSE IF out.saved /\ pw[u].pc = "loaded"
                        THEN [pw[u] EXCEPT !.over = @ \cup {t}]
                    ELSE pw[u]]
        /\ UNCHANGED ops

\* What the sessions enter in the forms: tickers as typed, at least 0.01
\* shares, a price above 0.01 EUR.
PfTickers == {"AAPL", " msft "}
PfShares  == {1, 2}
PfCosts   == {1000000, 1000001}

PfOthers == <<profileFile, agentVars, chatVars, logVars, toolCall, toolOut, fxVars, crewVars>>

PwAddStep(t) ==
    /\ \E tk \in PfTickers, sh \in PfShares, c \in PfCosts : PwCall(t, "add", tk, sh, c)
    /\ UNCHANGED PfOthers

PwRemoveStep(t) ==
    /\ \E tk \in PfTickers : PwCall(t, "remove", tk, 0, 0)
    /\ UNCHANGED PfOthers

PwLoadStep(t) == PwLoad(t) /\ UNCHANGED PfOthers

PwSaveStep(t) == PwSave(t) /\ UNCHANGED PfOthers

\* The portfolio starts empty: no portfolio.json.
InitPortfolio ==
    /\ profileFile = [state |-> "missing", data |-> <<>>]
    /\ AgentIdle
    /\ ChatIdle
    /\ LogIdle
    /\ ToolsIdle
    /\ FxIdle
    /\ CrewIdle
    /\ PfIdle

(***************************************************************************)
(* Specification of one session adding and removing, call after call.      *)
(***************************************************************************)
PortfolioAdd == PwAddStep(1)

PortfolioRemove == PwRemoveStep(1)

PortfolioLoad == PwLoadStep(1)

PortfolioSave == PwSaveStep(1)

NextPortfolio ==
    \/ PortfolioAdd
    \/ PortfolioRemove
    \/ PortfolioLoad
    \/ PortfolioSave

SpecPortfolio == InitPortfolio /\ [][NextPortfolio]_vars

(***************************************************************************)
(* Specification of one session adding and removing on a portfolio file    *)
(* as it may be found: missing, undecodable, empty, or a list that holds   *)
(* a ticker more than once.                                                *)
(***************************************************************************)
HoldingsFiles ==
    { [state |-> st, holdings |-> <<>>] : st \in {"missing", "invalid", "list"} }
    \cup { [state |-> "list", holdings |-> hs] :
             hs \in { <<Holding("AAPL", 10, 1500000)>>,
                      <<Holding("AAPL", 10, 1500000), Holding("MSFT", 2, 3000000),
                        Holding("AAPL", 1, 1700000), Holding("RKLB", 5, 40000)>> } }

InitHoldings ==
    /\ profileFile = [state |-> "missing", data |-> <<>>]
    /\ AgentIdle
    /\ ChatIdle
    /\ LogIdle
    /\ portfolioFile \in HoldingsFiles
    /\ toolCall = NoToolCall
    /\ toolOut = NoResult
    /\ FxIdle
    /\ CrewIdle
    /\ PfIdle

SpecHoldings == InitHoldings /\ [][NextPortfolio]_vars

(***************************************************************************)
(* Specification of PfWriters sessions adding and removing with no lock    *)
(* between them.                                                           *)
(***************************************************************************)
\* The race is over the tickers: every add is of one share at 100 EUR.
WriterAdd ==
    /\ \E t \in Writers, tk \in PfTickers : PwCall(t, "add", tk, 1, 1000000)
    /\ UNCHANGED PfOthers

WriterRemove == \E t \in Writers : PwRemoveStep(t)

WriterLoad == \E t \in Writers : PwLoadStep(t)

WriterSave == \E t \in Writers : PwSaveStep(t)

NextWriters ==
    \/ WriterAdd
    \/ WriterRemove
    \/ WriterLoad
    \/ WriterSave

SpecWriters == InitPortfolio /\ [][NextWriters]_vars

(***************************************************************************)
(* get_usd_to_eur_rate (currency_converter.py, lines 26-61) called from    *)
(* FxThreads threads without a lock: every read and write of _cache is a   *)
(* step of its own.  Rates are in 1/10000, time in seconds.                *)
(***************************************************************************)
CACHE_TTL_SECONDS == 3600

\* Seconds between two readings of the clock in the model.
TickSeconds == 1800

\* What one request to the remote service yields: a positive rate, or -1
\* where the request raises or the answer carries no positive number.
RemoteAnswers == {LiveRate, LiveRate + 100, -1}

FxSet(t, r) == fx' = [fx EXCEPT ![t] = r]

\* Line 32: now = time.time().  The calls in progress become concurrent
\* with this one.
FxCall(t) ==
    LET running == {u \in Threads \ {t} : fx[u].pc \notin {"idle", "done"}}
    IN  /\ fx[t].pc = "idle"
        /\ fx' = [u \in Threads |->
                    IF u = t THEN [fx[t] EXCEPT !.pc = "check", !.now = clock, !.with = running]
                    ELSE IF u \in running THEN [fx[u] EXCEPT !.with = @ \cup {t}]
                    ELSE fx[u]]
        /\ UNCHANGED <<_cache, clock, fetched>>

\* A cache that is still fresh when exactly one hour old.
FxCheck_Inclusive(t) ==
    /\ fx[t].pc = "check"
    /\ IF _cache.rate # RateNone /\ (fx[t].now - _cache.timestamp) <= CACHE_TTL_SECONDS
           THEN FxSet(t, [fx[t] EXCEPT !.pc = "hit"])
       ELSE FxSet(t, [fx[t] EXCEPT !.pc = "fetch", !.stale = TRUE])
    /\ UNCHANGED <<_cache, clock, fetched>>

\* Line 35: is the cached rate still fresh?
FxCheck(t) ==
    /\ fx[t].pc = "check"
    /\ IF _cache.rate # RateNone /\ (fx[t].now - _cache.timestamp) < CACHE_TTL_SECONDS
           THEN FxSet(t, [fx[t] EXCEPT !.pc = "hit"])
       ELSE FxSet(t, [fx[t] EXCEPT !.pc = "fetch", !.stale = TRUE])
    /\ UNCHANGED <<_cache, clock, fetched>>

\* Line 36: return _cache["rate"]
FxHit(t) ==
    /\ fx[t].pc = "hit"
    /\ FxSet(t, [fx[t] EXCEPT !.pc = "done", !.ret = _cache.rate])
    /\ UNCHANGED <<_cache, clock, fetched>>

\* A refresh that takes whatever number the service sent.
FxFetch_Unvalidated(t) ==
    /\ fx[t].pc = "fetch"
    /\ \E a \in RemoteAnswers :
          /\ FxSet(t, [fx[t] EXCEPT !.pc = "store_rate", !.rate = a, !.answer = a])
          /\ fetched' = TRUE
    /\ UNCHANGED <<_cache, clock>>

\* Lines 39-46 and 52-53: the request and the test of its answer.
FxFetch(t) ==
    /\ fx[t].pc = "fetch"
    /\ \E a \in RemoteAnswers :
          IF a > 0
              THEN /\ FxSet(t, [fx[t] EXCEPT !.pc = "store_rate", !.rate = a, !.answer = a])
                   /\ fetched' = TRUE
          ELSE /\ FxSet(t, [fx[t] EXCEPT !.pc = "fallback", !.answer = a])
               /\ UNCHANGED fetched
    /\ UNCHANGED <<_cache, clock>>

\* A refresh that keeps a rate already cached.
FxStoreRate_KeepCached(t) ==
    /\ fx[t].pc = "store_rate"
    /\ _cache' = IF _cache.rate = RateNone THEN [_cache EXCEPT !.rate = fx[t].rate] ELSE _cache
    /\ FxSet(t, [fx[t] EXCEPT !.pc = "store_timestamp"])
    /\ UNCHANGED <<clock, fetched>>

\* Line 47: _cache["rate"] = rate
FxStoreRate(t) ==
    /\ fx[t].pc = "store_rate"
    /\ _cache' = [_cache EXCEPT !.rate = fx[t].rate]
    /\ FxSet(t, [fx[t] EXCEPT !.pc = "store_timestamp"])
    /\ UNCHANGED <<clock, fetched>>

\* Lines 48-50: _cache["timestamp"] = now; return rate
FxStoreTimestamp(t) ==
    /\ fx[t].pc = "store_timestamp"
    /\ _cache' = [_cache EXCEPT !.timestamp = fx[t].now]
    /\ FxSet(t, [fx[t] EXCEPT !.pc = "done", !.ret = fx[t].rate])
    /\ UNCHANGED <<clock, fetched>>

\* A failed refresh that always answers with the static rate.
FxFallback_Static(t) ==
    /\ fx[t].pc = "fallback"
    /\ FxSet(t, [fx[t] EXCEPT !.pc = "done", !.ret = FALLBACK_RATE])
    /\ UNCHANGED <<_cache, clock, fetched>>

\* Lines 56-61: the stale cached rate if there is one, else FALLBACK_RATE
FxFallback(t) ==
    /\ fx[t].pc = "fallback"
    /\ FxSet(t, [fx[t] EXCEPT !.pc = "done",
                              !.ret = IF _cache.rate # RateNone THEN _cache.rate ELSE FALLBACK_RATE])
    /\ UNCHANGED <<_cache, clock, fetched>>

\* The caller has used the value; the thread may call again.
FxLeave(t) ==
    /\ fx[t].pc = "done"
    /\ FxSet(t, FxThreadIdle)
    /\ UNCHANGED <<_cache, clock, fetched>>

\* Time passes.
FxTick ==
    /\ clock < MaxClock * TickSeconds
    /\ clock' = clock + TickSeconds
    /\ UNCHANGED <<_cache, fx, fetched>>

InitFx ==
    /\ profileFile = [state |-> "missing", data |-> <<>>]
    /\ AgentIdle
    /\ ChatIdle
    /\ LogIdle
    /\ ToolsIdle
    /\ FxIdle
    /\ CrewIdle
    /\ PfIdle

FxOthers == <<profileFile, agentVars, chatVars, logVars, toolVars, crewVars, pfVars>>

FxCallStep ==
    /\ \E t \in Threads : FxCall(t)
    /\ UNCHANGED FxOthers

FxCheckStep ==
    /\ \E t \in Threads : FxCheck(t)
    /\ UNCHANGED FxOthers

FxHitStep ==
    /\ \E t \in Threads : FxHit(t)
    /\ UNCHANGED FxOthers

FxFetchStep ==
    /\ \E t \in Threads : FxFetch(t)
    /\ UNCHANGED FxOthers

FxStoreRateStep ==
    /\ \E t \in Threads : FxStoreRate(t)
    /\ UNCHANGED FxOthers

FxStoreTimestampStep ==
    /\ \E t \in Threads : FxStoreTimestamp(t)
    /\ UNCHANGED FxOthers

FxFallbackStep ==
    /\ \E t \in Threads : FxFallback(t)
    /\ UNCHANGED FxOthers

FxLeaveStep ==
    /\ \E t \in Threads : FxLeave(t)
    /\ UNCHANGED FxOthers

FxTickStep ==
    /\ FxTick
    /\ UNCHANGED FxOthers

NextFx ==
    \/ FxCallStep
    \/ FxCheckStep
    \/ FxHitStep
    \/ FxFetchStep
    \/ FxStoreRateStep
    \/ FxStoreTimestampStep
    \/ FxFallbackStep
    \/ FxLeaveStep
    \/ FxTickStep

SpecFx == InitFx /\ [][NextFx]_vars

\* is_using_fallback(), lines 140-142
is_using_fallback == _cache.rate = RateNone

(***************************************************************************)
(* Specification of a process with one caller of get_usd_to_eur_rate: the  *)
(* other threads never call.                                               *)
(***************************************************************************)
InitRate ==
    /\ profileFile = [state |-> "missing", data |-> <<>>]
    /\ AgentIdle
    /\ ChatIdle
    /\ LogIdle
    /\ ToolsIdle
    /\ _cache = [rate |-> RateNone, timestamp |-> 0]
    /\ clock = 0
    /\ fx = [t \in Threads |-> IF t = 1 THEN FxThreadIdle ELSE [FxThreadIdle EXCEPT !.pc = "absent"]]
    /\ fetched = FALSE
    /\ CrewIdle
    /\ PfIdle

SpecRate == InitRate /\ [][NextFx]_vars

(***************************************************************************)
(* Workflows (crew.py, tasks.py).  The task texts are cut after their      *)
(* first step.                                                             *)
(***************************************************************************)
stock_analysis_task(ticker) ==
    "Fuehre eine umfassende Fundamentalanalyse von " \o ticker \o " durch.\n\n"
    \o "Schritte:\n"
    \o "1. Nutze get_stock_data, um Finanzkennzahlen fuer " \o ticker \o " abzurufen.\n"

news_analysis_task(ticker) ==
    "Analysiere aktuelle Nachrichten zu " \o ticker \o ".\n\n"
    \o "1. Nutze search_news, um aktuelle Artikel zu " \o ticker \o " abzurufen.\n"

portfolio_analysis_task ==
    "Analysiere das aktuelle Investmentportfolio.\n\n"
    \o "1. Nutze get_portfolio_data, um alle Positionen zu lesen.\n"

\* A workflow that briefs on the news before the research.
CrewOrder_NewsFirst == <<"news", "research", "portfolio">>

\* The calls of run_full_analysis, lines 78-80, by the tool group of the
\* agent each workflow creates.
CrewOrder == <<"research", "news", "portfolio">>

\* The task a workflow builds (lines 35, 49, 63)
CrewTask(group, ticker) ==
    CASE group = "research" -> stock_analysis_task(ticker)
      [] group = "news"     -> news_analysis_task(ticker)
      [] OTHER              -> portfolio_analysis_task

\* The next workflow is entered: it creates its agent and calls execute
\* (lines 34-36, 48-50, 62-64).
CrewRun(ticker) ==
    LET group == CrewOrder[Len(runs) + 1]
    IN  /\ ExecuteBegin(CreateAgent(group), CrewTask(group, ticker))
        /\ cpc' = [at |-> "running", ticker |-> ticker]
        /\ runs' = Append(runs, [agent |-> group, out |-> NoResult])
        /\ UNCHANGED crewOut

\* run_full_analysis(ticker) is called: line 78.
CrewBegin(ticker) ==
    /\ cpc.at = "idle"
    /\ hpc = "idle"
    /\ CrewRun(ticker)

\* Lines 79 and 80: the workflow before has returned.
CrewNext ==
    /\ cpc.at = "between"
    /\ CrewRun(cpc.ticker)

\* execute is over and its frame is gone.  Where it returned, the workflow
\* returns the result and run_full_analysis goes on: to the next workflow,
\* or after the third to the dict of lines 84-88.  Where it raised, nothing
\* catches the exception: it leaves the workflow and run_full_analysis.
CrewWorkflowEnds ==
    LET done == [runs EXCEPT ![Len(runs)].out = result]
    IN  /\ cpc.at = "running"
        /\ pc \in {"done", "raised"}
        /\ runs' = done
        /\ IF result.kind = "raise"
               THEN cpc' = [cpc EXCEPT !.at = "raised"] /\ crewOut' = result
           ELSE IF Len(runs) < Len(CrewOrder)
               THEN cpc' = [cpc EXCEPT !.at = "between"] /\ UNCHANGED crewOut
           ELSE /\ cpc' = [cpc EXCEPT !.at = "returned"]
                /\ crewOut' = Return([g \in {"research", "news", "portfolio"} |->
                        done[CHOOSE k \in DOMAIN done : done[k].agent = g].out.value])
        /\ pc' = "idle"
        /\ agent' = Agent("", "", "", "", 0)
        /\ messages' = <<>>
        /\ iteration' = 0
        /\ message' = Message("none", "", <<>>, "")
        /\ tc' = 0
        /\ result' = NoResult
        /\ responses' = <<>>
        /\ toolRuns' = <<>>
        /\ requests' = <<>>

(***************************************************************************)
(* Specification of one call of run_full_analysis.                         *)
(***************************************************************************)
CrewTickers == {"AAPL"}

CrewOthers == <<profileFile, chatVars, logVars, toolVars, fxVars, pfVars>>

\* Tool calls requested inside a workflow: one call per response, of
\* get_stock_data, which only the research agent is offered, with good or
\* cut-off arguments, or of a tool that does not exist.
CrewCallShapes == ChatCallShapes \cup {<<"get_weather", "{}">>}

CrewResponses == [i \in 0..MaxIter |-> Responses(i + 1, CrewCallShapes, 1)]

InitCrew ==
    /\ profileFile \in AgentProfileFiles
    /\ AgentIdle
    /\ ChatIdle
    /\ LogIdle
    /\ ToolsIdle
    /\ FxIdle
    /\ CrewIdle
    /\ PfIdle

CrewCall ==
    /\ \E ticker \in CrewTickers : CrewBegin(ticker)
    /\ UNCHANGED CrewOthers

CrewNextStep ==
    /\ CrewNext
    /\ UNCHANGED CrewOthers

CrewCompletionStep ==
    /\ cpc.at = "running"
    /\ \E r \in CrewResponses[iteration] : Complete(r)
    /\ UNCHANGED <<CrewOthers, crewVars>>

CrewToolStep ==
    /\ cpc.at = "running"
    /\ \E sourceOk \in BOOLEAN : ExecuteToolCall(sourceOk)
    /\ UNCHANGED <<CrewOthers, crewVars>>

CrewExhaustedStep ==
    /\ cpc.at = "running"
    /\ Exhausted
    /\ UNCHANGED <<CrewOthers, crewVars>>

CrewEndsStep ==
    /\ CrewWorkflowEnds
    /\ UNCHANGED CrewOthers

NextCrew ==
    \/ CrewCall
    \/ CrewNextStep
    \/ CrewCompletionStep
    \/ CrewToolStep
    \/ CrewExhaustedStep
    \/ CrewEndsStep

SpecCrew == InitCrew /\ [][NextCrew]_vars

(***************************************************************************)
(* Properties of Agent.execute.                                            *)
(***************************************************************************)
Last(q) == q[Len(q)]

\* Index of the last assistant message of the conversation, 0 if none.
LastAssistant(msgs) ==
    IF \E i \in DOMAIN msgs : msgs[i].role = "assistant"
        THEN CHOOSE i \in DOMAIN msgs :
                 msgs[i].role = "assistant" /\ \A k \in DOMAIN msgs : msgs[k].role = "assistant" => k <= i
    ELSE 0

\* The content decodes as a JSON object with an `error` key.
HasErrorKey(content) ==
    LET v == JsonLoads(content) IN v.ok /\ v.type = "object" /\ "error" \in JsonKeys(v)

\* Every completion response so far carried tool calls.
OnlyToolRounds == \A i \in DOMAIN responses : responses[i] = "tool_calls"

\* C1: one call of execute issues at most max_iterations completion
\* requests, whatever the endpoint answers.
C1_AtMostNRequests == Len(responses) <= agent.max_iterations

C1_Witness ==
    /\ agent.max_iterations >= 2
    /\ Len(responses) = agent.max_iterations
    /\ pc \in {"done", "raised"}

\* C2: when every response carries tool calls and no request fails,
\* execute ends after exactly max_iterations rounds and returns, without
\* raising, the content of the last message of the conversation.
C2_ExhaustionReturnsLast ==
    (pc \in {"done", "raised"} /\ messages # <<>> /\ OnlyToolRounds)
        => /\ result.kind = "return"
           /\ Len(responses) = agent.max_iterations
           /\ result.value = Last(messages).content
           /\ Last(messages).role = (IF agent.max_iterations = 0 THEN "user" ELSE "tool")

\* C3: a tool call whose function raises gets exactly one tool-result
\* message holding a JSON object with an `error` key, and the round goes on:
\* the remaining calls of the round are executed and the loop continues.
C3_RaisingToolContained ==
    LET a == LastAssistant(messages)
    IN  a > 0 =>
          \A j \in 1..Len(messages[a].tool_calls) :
              (a + j <= Len(messages) /\ ToolRaises(messages[a].tool_calls[j]))
                  => /\ messages[a + j].role = "tool"
                     /\ HasErrorKey(messages[a + j].content)
                     /\ ~(pc = "raised" /\ Len(messages) < a + Len(messages[a].tool_calls))

\* C4: no tool failure leaves execute as an exception: undecodable or
\* mismatching arguments and unknown tool names all end as a tool-result
\* message with an `error` key.
C4_ToolFailuresContained ==
    LET a == LastAssistant(messages)
    IN  /\ ~(pc = "raised" /\ a > 0 /\ Len(messages) < a + Len(messages[a].tool_calls))
        /\ a > 0 =>
             \A j \in 1..Len(messages[a].tool_calls) :
                 LET call == messages[a].tool_calls[j]
                 IN  (a + j <= Len(messages) /\ (call.name \notin TOOL_FUNCTIONS \/ ToolRaises(call)))
                         => HasErrorKey(messages[a + j].content)

\* C5: once a round is over, each assistant message with k tool calls is
\* followed by exactly k tool-result messages carrying the ids of the calls
\* in the order requested; while the round runs, the results so far carry
\* the ids of the first calls.
C5_IdsRoundTrip ==
    \A a \in DOMAIN messages :
        messages[a].role = "assistant" =>
            LET calls == messages[a].tool_calls
                got   == IF pc = "tools" /\ a = LastAssistant(messages) THEN tc - 1 ELSE Len(calls)
            IN  /\ Len(messages) >= a + got
                /\ \A j \in 1..got :
                       messages[a + j].role = "tool" /\ messages[a + j].tool_call_id = calls[j].id
                /\ (Len(messages) > a + got => messages[a + got + 1].role = "assistant")

\* C6: a response without tool calls ends execute at once: it is the last
\* request, execute has returned its text ("" when the text is absent or
\* empty), and nothing is requested or run afterwards.
C6_FinalAnswerEnds ==
    /\ [](\A i \in DOMAIN responses :
             responses[i] = "final"
                 => /\ i = Len(responses)
                    /\ pc = "done"
                    /\ result.kind = "return"
                    /\ result.value = (IF message.content \in {None, ""} THEN "" ELSE message.content))
    /\ [][("final" \in {responses[i] : i \in DOMAIN responses})
              => UNCHANGED <<responses, toolRuns, messages, result>>]_vars

C6_Witness ==
    /\ pc = "done"
    /\ responses # <<>> /\ Last(responses) = "final"
    /\ Len(responses) < agent.max_iterations
    /\ message.content = None
    /\ result = Return("")

\* C7: a failed completion request is not retried: it is the last request
\* of the call, no tool runs after it, and execute raises.
C7_NoRetry ==
    /\ [](\A i \in DOMAIN responses :
             responses[i] = "error"
                 => /\ i = Len(responses)
                    /\ pc = "raised"
                    /\ result.kind = "raise"
                    /\ result.exc = "APIConnectionError")
    /\ [][("error" \in {responses[i] : i \in DOMAIN responses})
              => UNCHANGED <<responses, toolRuns, messages, result>>]_vars

C7_Witness ==
    /\ pc = "raised"
    /\ result.exc = "APIConnectionError"
    /\ Len(responses) = 2 /\ Len(responses) <= agent.max_iterations
    /\ toolRuns # <<>>

(***************************************************************************)
(* Properties of handle_chat_message and classify_intent.                  *)
(***************************************************************************)
\* C8: no exception leaves handle_chat_message, whichever step fails; it
\* always ends by returning a (text, intent) pair.
C8_NothingEscapes == hpc # "escaped" /\ reply.kind # "raise"

\* C9: when agent.execute raises, handle_chat_message returns the apology
\* followed by the error text, paired with the intent resolved before the
\* failure.
C9_ApologyKeepsIntent ==
    [][(hpc = "executing" /\ hpc' = "returned" /\ result.kind = "raise")
          => /\ reply'.kind = "return"
             /\ Sub(reply'.text, 1, Len(ApologyPrefix)) = ApologyPrefix
             /\ Sub(reply'.text, Len(ApologyPrefix) + 1, Len(reply'.text)) = result.value
             /\ reply'.intent = intent
             /\ intent' = intent
             /\ intent \in {"research", "news", "portfolio"}
             /\ agent.tool_group = intent]_vars

C9_Witness ==
    /\ hpc = "returned"
    /\ result = Raise("APIConnectionError", "Connection error.")
    /\ reply = Reply(ApologyPrefix \o "Connection error.", "portfolio")

\* C10: classify_intent returns one of the four labels; when the request
\* fails or the trimmed, lower-cased label is none of the four, it returns
\* what the keyword fallback returns for the question.
C10_ClassifyFallsBack ==
    hpc = "classified"
        => /\ intent \in {"research", "news", "portfolio", "multi"}
           /\ (llmLabel \in {"<error>", None}
               \/ Lower(Strip(llmLabel)) \notin {"research", "news", "portfolio", "multi"})
                  => intent = _keyword_classify(question)

C10_Witness ==
    /\ hpc = "classified"
    /\ llmLabel = "banana"
    /\ question = "What are my portfolio's risks?"
    /\ intent = "portfolio"

(***************************************************************************)
(* Properties of the keyword fallback.                                     *)
(***************************************************************************)
\* The keywords of a list that occur in the lower-cased question.
Matches(words, q) ==
    LET lq == Lower(q) IN {w \in {words[i] : i \in DOMAIN words} : IsSubstring(w, lq)}

NewsCount      == Cardinality(Matches(news_words, question))
PortfolioCount == Cardinality(Matches(portfolio_words, question))
ResearchCount  == Cardinality(Matches(research_words, question))

\* C11: the fallback returns a category whose count of distinct keywords
\* occurring in the lower-cased question is the largest of the three; among
\* categories with the same nonzero largest count, news wins over portfolio
\* and portfolio over research.
C11_MaxScoreWins ==
    hpc = "keyword_done" =>
        LET n == NewsCount
            p == PortfolioCount
            r == ResearchCount
            c == CASE intent = "news"      -> n
                   [] intent = "portfolio" -> p
                   [] intent = "research"  -> r
                   [] OTHER                -> -1
        IN  /\ c >= n /\ c >= p /\ c >= r
            /\ (n > 0 /\ n >= p /\ n >= r) => intent = "news"
            /\ (p > n /\ p >= r) => intent = "portfolio"

C11_Witness ==
    /\ hpc = "keyword_done"
    /\ question = "rendite news rendite"
    /\ NewsCount = 1 /\ PortfolioCount = 1 /\ ResearchCount = 0
    /\ intent = "news"

\* C12: a question in which no keyword of the three lists occurs is
\* classified as research.
C12_NoMatchIsResearch ==
    (hpc = "keyword_done" /\ NewsCount = 0 /\ PortfolioCount = 0 /\ ResearchCount = 0)
        => intent = "research"

C12_Witness ==
    /\ hpc = "keyword_done"
    /\ question = "Wetter Wetter"
    /\ NewsCount + PortfolioCount + ResearchCount = 0
    /\ intent = "research"

\* C13: a question with at least one portfolio keyword and neither a news
\* nor a research keyword is classified as portfolio.
C13_PortfolioOnly ==
    (hpc = "keyword_done" /\ PortfolioCount >= 1 /\ NewsCount = 0 /\ ResearchCount = 0)
        => intent = "portfolio"

C13_Witness ==
    /\ hpc = "keyword_done"
    /\ question = "Meine Aktien Wetter"
    /\ PortfolioCount = 1 /\ NewsCount = 0 /\ ResearchCount = 0
    /\ intent = "portfolio"

(***************************************************************************)
(* Further properties of handle_chat_message.                              *)
(***************************************************************************)
\* C14: handle_chat_message neither dispatches on nor returns multi: the
\* classifier's multi becomes research, every other label is kept, the agent
\* executed is the specialist of the resolved intent, and the intent
\* returned is that resolved intent, one of research, news, portfolio.
C14_NeverMulti ==
    /\ []((hpc \in {"executing", "returned"})
             => /\ intent \in {"research", "news", "portfolio"}
                /\ agent.tool_group = intent
                /\ agent.role = (CASE intent = "research" -> "Senior Investment Analyst"
                                   [] intent = "news"     -> "Finanz-Nachrichtenanalyst"
                                   [] OTHER               -> "Portfolio Manager"))
    /\ [](reply.kind = "return" => reply.intent = intent /\ reply.intent # "multi")
    /\ [][(hpc = "classified" /\ hpc' = "executing")
             => intent' = (IF intent = "multi" THEN "research" ELSE intent)]_vars

C14_Witness ==
    /\ hpc = "returned"
    /\ llmLabel = "Multi "
    /\ reply.kind = "return"
    /\ reply.intent = "research"
    /\ agent = create_research_agent

(***************************************************************************)
(* Properties of _build_chat_task.                                         *)
(***************************************************************************)
\* text.split("\n")
Lines(text) ==
    LET nl  == {i \in 1..Len(text) : Ch(text, i) = "\n"}
        n   == Cardinality(nl)
        pos == [k \in 0..(n + 1) |->
                   IF k = 0 THEN 0
                   ELSE IF k = n + 1 THEN Len(text) + 1
                   ELSE CHOOSE p \in nl : Cardinality({x \in nl : x <= p}) = k]
    IN  [k \in 1..(n + 1) |-> Sub(text, pos[k - 1] + 1, pos[k] - 1)]

\* Position of the first line equal to l, 0 if there is none.
LineIndex(ls, l) ==
    IF \E k \in DOMAIN ls : ls[k] = l
        THEN CHOOSE k \in DOMAIN ls : ls[k] = l /\ \A j \in 1..(k - 1) : ls[j] # l
    ELSE 0

\* The k-th smallest element of a set of numbers.
Kth(T, k) == CHOOSE x \in T : Cardinality({y \in T : y <= x}) = k

\* The context lines of a task: the lines between the history header and
\* the empty line before the question header.
ContextLinesOf(ls) ==
    LET hd == LineIndex(ls, "LETZTER GESPRAECHSVERLAUF:")
        qi == LineIndex(ls, "AKTUELLE FRAGE DES NUTZERS:")
    IN  IF hd = 0 \/ qi < hd + 2 THEN <<>> ELSE SubSeq(ls, hd + 1, qi - 2)

\* line is the entry m labelled by its speaker and cut to 300 characters.
IsLineOf(line, m) ==
    /\ m.role \in {"user", "assistant"}
    /\ LET label == IF m.role = "user" THEN "Nutzer: " ELSE "Agent: "
           shown == Sub(line, Len(label) + 1, Len(line))
       IN  /\ Sub(line, 1, Len(label)) = label
           /\ Len(shown) <= 300
           /\ shown = (IF Len(m.content) <= 300 THEN m.content ELSE SubSeq(m.content, 1, 300))

\* C15: the context lines of the task are entries among the last 6 of the
\* history, in their order, each labelled by its speaker and cut to its
\* first 300 characters; there are at most 6 of them, and the question
\* follows them in full.
C15_ContextWindow ==
    hpc = "built" =>
        LET ls   == Lines(task)
            ctx  == ContextLinesOf(ls)
            qi   == LineIndex(ls, "AKTUELLE FRAGE DES NUTZERS:")
            n    == Len(chat_history)
            last == {i \in 1..n : i > n - 6}
        IN  /\ Len(ctx) <= 6
            /\ \E T \in SUBSET last :
                   /\ Cardinality(T) = Len(ctx)
                   /\ \A k \in 1..Len(ctx) : IsLineOf(ctx[k], chat_history[Kth(T, k)])
            /\ qi > 0 /\ qi > LineIndex(ls, "LETZTER GESPRAECHSVERLAUF:")
            /\ ls[qi + 1] = question
            /\ \A k \in (qi + 1)..Len(ls) :
                   Sub(ls[k], 1, 8) # "Nutzer: " /\ Sub(ls[k], 1, 7) # "Agent: "

C15_Witness ==
    /\ hpc = "built"
    /\ Len(chat_history) = 7
    /\ Len(chat_history[2].content) = 303
    /\ chat_history[4].role = "system"
    /\ Len(ContextLinesOf(Lines(task))) = 5
    /\ ContextLinesOf(Lines(task))[1] = SubSeq("Agent: " \o chat_history[2].content, 1, 307)

(***************************************************************************)
(* Properties of the profile context.                                      *)
(***************************************************************************)
\* The stored profile differs from DEFAULT_PROFILE in some field.
ProfileIsNonDefault ==
    /\ profileFile.state = "object"
    /\ \E k \in DOMAIN profileFile.data : profileFile.data[k] # DEFAULT_PROFILE[k]

HasProfileBlock(text) == IsSubstring(ProfileHeader, text)

\* C16: when handle_chat_message enters agent.execute, the chat task and
\* the agent's system prompt hold the profile block exactly if the stored
\* profile differs from the default profile in some field.
C16_BlockIffNonDefault ==
    (hpc = "executing" /\ pc = "loop" /\ iteration = 0 /\ responses = <<>>)
        => /\ ProfileIsNonDefault <=> HasProfileBlock(task)
           /\ ProfileIsNonDefault <=> HasProfileBlock(messages[1].content)

(***************************************************************************)
(* Properties of the chat log.                                             *)
(***************************************************************************)
\* C17: a chat log written by save or clear holds at most 50 entries, the
\* last min(n, 50) of the n entries passed to the most recent save, in
\* order; a load returns at most 50 entries, the entries of the file, and
\* the empty list after a clear or for a missing or undecodable file.
C17_LogCapped ==
    /\ [](chatFile.state = "list"
             => LET n == Len(lastSaved)
                    m == IF n < 50 THEN n ELSE 50
                IN  /\ Len(chatFile.entries) <= 50
                    /\ Len(chatFile.entries) = m
                    /\ \A k \in 1..m : chatFile.entries[k] = DumpEntry(lastSaved[n - m + k]))
    /\ [](logOp = "load"
             => /\ Len(chat_messages) <= 50
                /\ chatFile.state \in {"missing", "invalid"} => chat_messages = <<>>
                /\ chatFile.state = "list"
                      => /\ Len(chat_messages) = Len(chatFile.entries)
                         /\ \A k \in DOMAIN chat_messages :
                                DumpEntry(chat_messages[k]) = chatFile.entries[k])
    /\ [][(logOp = "clear" /\ logOp' = "load") => chat_messages' = <<>>]_vars

C17_Witness ==
    /\ logOp = "load"
    /\ Len(lastSaved) = 51
    /\ lastSaved[1].role = "user"
    /\ Len(chatFile.entries) = 50
    /\ Len(chat_messages) = 50
    /\ chat_messages[1] = lastSaved[2]
    /\ chat_messages[50] = lastSaved[51]

(***************************************************************************)
(* The portfolio scenario.                                                 *)
(***************************************************************************)
PortfolioQuestion == "What are my portfolio's risks?"

\* The classification request did not answer with one of the other labels:
\* it failed, or answered portfolio, or answered with no valid label.
NoOtherLabel ==
    \/ llmLabel \in {"<error>", None}
    \/ Lower(Strip(llmLabel)) \notin {"research", "news", "multi"}

\* C18: for the question "What are my portfolio's risks?", unless the
\* classification request names another label, handle_chat_message
\* classifies it as portfolio, builds a task whose context lines are among
\* the last 6 history entries, executes the portfolio specialist and
\* returns a pair (answer, "portfolio"); no exception leaves it.
C18_PortfolioScenario ==
    (question = PortfolioQuestion /\ NoOtherLabel)
        => /\ hpc = "classified" => intent = "portfolio"
           /\ hpc # "escaped" /\ reply.kind # "raise"
           /\ hpc \in {"executing", "returned"}
                 => /\ intent = "portfolio"
                    /\ agent = create_portfolio_monitor_agent
           /\ (hpc = "executing" /\ responses = <<>> /\ pc = "loop")
                 => LET ctx  == ContextLinesOf(Lines(task))
                        n    == Len(chat_history)
                    IN  /\ Len(ctx) <= 6
                        /\ \A k \in 1..Len(ctx) :
                               \E i \in 1..n : i > n - 6 /\ IsLineOf(ctx[k], chat_history[i])
                        /\ messages[2].content = task
           /\ hpc = "returned"
                 => /\ reply.kind = "return"
                    /\ reply.intent = "portfolio"
                    /\ result.kind = "return" => reply.text = result.value

(***************************************************************************)
(* Properties of the tools.                                                *)
(***************************************************************************)
\* Nesting depth of position i of a JSON text without brackets in strings.
DepthAt(text, i) ==
    Cardinality({j \in 1..(i - 1) : Ch(text, j) \in {"{", "["}})
    - Cardinality({j \in 1..(i - 1) : Ch(text, j) \in {"}", "]"}})

QuotesOf(text) == {i \in 1..Len(text) : Ch(text, i) = Quote}

\* The text is one JSON object: braces around it, brackets balanced, every
\* string inside it, quotes in pairs.
IsJsonObjectText(text) ==
    /\ Len(text) >= 2
    /\ Ch(text, 1) = "{" /\ Ch(text, Len(text)) = "}"
    /\ DepthAt(text, Len(text) + 1) = 0
    /\ \A i \in QuotesOf(text) : DepthAt(text, i) >= 1
    /\ Cardinality(QuotesOf(text)) % 2 = 0

\* The keys of the object itself, not of the objects nested in it.
TopKeys(text) ==
    {Sub(text, i + 1, FindQuote(text, i + 1) - 1) :
        i \in {q \in QuotesOf(text) :
                 /\ DepthAt(text, q) = 1
                 /\ (q = 2 \/ Sub(text, q - 2, q - 1) = ", ")
                 /\ Sub(text, FindQuote(text, q + 1) + 1, FindQuote(text, q + 1) + 2) = ": "}}

TickerTools == {"get_stock_data", "get_company_info", "search_news"}
FileTools   == {"get_portfolio_data", "calculate_returns"}

\* The portfolio file holds holdings that all name a ticker.
HasPricedHoldings ==
    /\ portfolioFile.state = "list"
    /\ portfolioFile.holdings # <<>>
    /\ \A i \in DOMAIN portfolioFile.holdings : "ticker" \in DOMAIN portfolioFile.holdings[i]

\* The tool fails in the claim's sense: the data source it asks is
\* unreachable, or the portfolio file it reads cannot be read or decoded.
ToolFails ==
    \/ toolCall.fn \in TickerTools /\ toolCall.source = "raises"
    \/ toolCall.fn \in FileTools /\ portfolioFile.state \in {"invalid", "unreadable"}
    \/ toolCall.fn = "calculate_returns" /\ HasPricedHoldings /\ toolCall.source = "raises"

UnpricedEntry(h) ==
    "{" \o Quote \o "ticker" \o Quote \o ": " \o Quote \o h.ticker \o Quote \o ", "
        \o Quote \o "error" \o Quote \o ": " \o Quote \o "Could not fetch price" \o Quote \o "}"

StaleCallsFinished ==
    \A t \in Threads :
        /\ fx[t].pc = "done"
        /\ fx[t].stale
        /\ fx[t].with = Threads \ {t}

\* C20 as stated: after concurrent calls that found the cache stale have
\* all finished, the values they returned are one and the same value, and
\* the cached rate, if a rate is cached, is that value.
C20_Converge ==
    StaleCallsFinished
        => /\ \A t, u \in Threads : fx[t].ret = fx[u].ret
           /\ _cache.rate # RateNone => \A t \in Threads : fx[t].ret = _cache.rate

\* C20 amended: after concurrent calls that found the cache stale have all
\* finished, each having been answered by the remote service with the same
\* positive rate, the values they returned and the cached rate are that
\* rate.
C20_ConvergeOnSameAnswer ==
    (StaleCallsFinished /\ \E r \in RemoteAnswers : r > 0 /\ \A t \in Threads : fx[t].answer = r)
        => \A t \in Threads : fx[t].ret = fx[t].answer /\ _cache.rate = fx[t].answer

C20_Witness ==
    /\ StaleCallsFinished
    /\ \A t \in Threads : fx[t].answer = LiveRate /\ fx[t].ret = LiveRate
    /\ _cache = [rate |-> LiveRate, timestamp |-> 2 * TickSeconds]
    /\ \E t \in Threads : fx[t].now = 2 * TickSeconds

(***************************************************************************)
(* The portfolio file.                                                     *)
(***************************************************************************)
\* The holdings of a ticker in a list, in the list's order
OfTicker(hs, x) == SelectSeq(hs, LAMBDA h : h.ticker = x)

\* The other holdings of a list, in the list's order
NotOfTicker(hs, x) == SelectSeq(hs, LAMBDA h : h.ticker # x)

\* ticker.upper().strip() of the call a session is in
CallTicker(t) == Strip(Upper(pw[t].ticker))

ReportsSuccess(ret) == ret # "" /\ ~IsSubstring("nicht im Portfolio gefunden", ret)

\* Sessions t and u loaded the same list, u saved between t's load and t's
\* save, both calls have returned and t's save is the last write.
Overwrote(t, u) ==
    /\ t # u
    /\ pw[t].pc = "done" /\ pw[u].pc = "done"
    /\ pw[t].wrote /\ pw[u].wrote
    /\ u \in pw[t].over
    /\ pw[t].portfolio = pw[u].portfolio
    /\ CallTicker(t) # CallTicker(u)
    /\ \A w \in Writers \ {t, u} : pw[w].pc = "idle"

\* C21: the portfolio file is last-write-wins.  When two sessions change
\* different tickers from the same loaded list and one saves between the
\* other's load and save, the final file holds the first saver's ticker as
\* it was before its call and not as that call saved it, and both calls
\* have returned their success message.
C21_LostUpdate ==
    \A t, u \in Writers :
        Overwrote(t, u) =>
            LET x     == CallTicker(u)
                final == load_portfolio(portfolioFile)
            IN  /\ OfTicker(final, x) = OfTicker(pw[u].portfolio, x)
                /\ OfTicker(final, x) # OfTicker(PwOutcome(pw[u]).portfolio, x)
                /\ ReportsSuccess(pw[t].ret)
                /\ ReportsSuccess(pw[u].ret)

\* Two adds of different tickers to the empty portfolio, one overwriting
\* the other.
C21_Witness ==
    \E t, u \in Writers :
        /\ Overwrote(t, u)
        /\ pw[t].op = "add" /\ pw[u].op = "add"
        /\ Len(load_portfolio(portfolioFile)) = 1

\* The holdings on file, [] where the file is missing or undecodable
OnFile == load_portfolio(portfolioFile)

\* Every ticker on file is in normal form and has one holding.
OneHoldingPerTicker ==
    \A i, j \in DOMAIN OnFile :
        /\ OnFile[i].ticker = Strip(Upper(OnFile[i].ticker))
        /\ OnFile[i].ticker = OnFile[j].ticker => i = j

\* The session's call of kind op goes from its load to its return.
Finishes(op) == pw[1].pc = "loaded" /\ pw[1].op = op /\ pw'[1].pc = "done"

\* The step of an add to a ticker that has a holding: one holding of the
\* ticker afterwards, with the shares summed and the cost basis the
\* share-weighted average to the nearest 0.0001 EUR; the rest as before.
AddUpdates ==
    LET x   == CallTicker(1)
        old == OfTicker(OnFile, x)
        new == OfTicker(OnFile', x)
        total == old[1].shares + pw[1].shares
        sum   == old[1].shares * old[1].cost_basis_eur + pw[1].shares * pw[1].cost_basis_eur
        diff  == new[1].cost_basis_eur * total - sum
    IN  (Finishes("add") /\ old # <<>>) =>
            /\ Len(new) = 1
            /\ new[1].shares = total
            /\ 2 * diff <= total /\ 2 * diff >= -total
            /\ NotOfTicker(OnFile', x) = NotOfTicker(OnFile, x)
            /\ Len(OnFile') = Len(OnFile)

\* C26: starting from the empty portfolio, under every sequence of add and
\* remove calls each ticker on file, upper-cased and stripped, has at most
\* one holding; an add to a ticker on file leaves one holding of it with
\* the shares summed and the cost basis the share-weighted average, and
\* every other holding unchanged.
C26_OneHoldingPerTicker == []OneHoldingPerTicker /\ [][AddUpdates]_vars

\* An add to a ticker on file has returned, the average not being a whole
\* number of 0.0001 EUR.
C26_Witness ==
    /\ pw[1].pc = "done" /\ pw[1].op = "add"
    /\ OfTicker(pw[1].portfolio, CallTicker(1)) # <<>>
    /\ Len(OnFile) = 2
    /\ LET old == OfTicker(pw[1].portfolio, CallTicker(1))[1]
       IN  (old.shares * old.cost_basis_eur + pw[1].shares * pw[1].cost_basis_eur)
               % (old.shares + pw[1].shares) # 0

\* The step of a remove: every holding of the ticker goes and the others
\* stay in their order; without a holding of the ticker the file stays as
\* it is and the not-found message is returned.
RemoveRemoves ==
    LET x == CallTicker(1)
    IN  Finishes("remove") =>
            IF OfTicker(OnFile, x) # <<>>
                THEN /\ portfolioFile' = [state |-> "list", holdings |-> NotOfTicker(OnFile, x)]
                     /\ pw'[1].ret = x \o " aus dem Portfolio entfernt."
            ELSE /\ portfolioFile' = portfolioFile
                 /\ pw'[1].ret = x \o " nicht im Portfolio gefunden."

\* C27: remove_from_portfolio(t) removes every holding whose ticker is the
\* normalised t and leaves the other holdings and their order unchanged;
\* when no holding matches, the file is not written and a not-found
\* message is returned.
C27_RemoveFrame == [][RemoveRemoves]_vars

\* A remove has taken both holdings of a ticker out of a list of four.
C27_Witness ==
    /\ pw[1].pc = "done" /\ pw[1].op = "remove" /\ pw[1].wrote
    /\ Len(pw[1].portfolio) = 4
    /\ Len(OnFile) = 2

(***************************************************************************)
(* The conversation of Agent.execute.                                      *)
(***************************************************************************)
IsPrefix(a, b) == Len(a) <= Len(b) /\ SubSeq(b, 1, Len(a)) = a

\* The assistant message a tool message at p answers: the nearest before it
Asker(msgs, p) ==
    LET before == {a \in 1..(p - 1) : msgs[a].role = "assistant"}
    IN  IF before = {} THEN 0 ELSE CHOOSE a \in before : \A b \in before : b <= a

\* One system message, one user message, then groups of an assistant
\* message with k >= 1 tool calls and its tool results, k of them in every
\* group but the last, which holds `last` of them (k where `last` is -1).
Grouped(msgs, last) ==
    /\ Len(msgs) >= 2
    /\ msgs[1].role = "system"
    /\ msgs[2].role = "user"
    /\ \A p \in 3..Len(msgs) :
          LET m == msgs[p]
              k == Len(m.tool_calls)
          IN  \/ /\ m.role = "assistant"
                 /\ k >= 1
                 /\ \A j \in 1..k : p + j <= Len(msgs) => msgs[p + j].role = "tool"
                 /\ IF \E q \in (p + 1)..Len(msgs) : msgs[q].role = "assistant"
                        THEN Len(msgs) > p + k /\ msgs[p + k + 1].role = "assistant"
                    ELSE Len(msgs) = p + (IF last = -1 THEN k ELSE last)
              \/ /\ m.role = "tool"
                 /\ Asker(msgs, p) >= 3
                 /\ p - Asker(msgs, p) <= Len(msgs[Asker(msgs, p)].tool_calls)

\* The conversation, once built, is made of whole groups, in every request
\* too; while the calls of a response are executed the last group holds the
\* results of the calls executed so far.
ConversationShape ==
    /\ pc \in {"loop", "tools", "done"} => messages # <<>>
    /\ (pc # "tools" /\ messages # <<>>) => Grouped(messages, -1)
    /\ pc = "tools" => Grouped(messages, tc - 1)
    /\ messages # <<>> =>
          /\ messages[1].content = system_prompt(agent, profileFile).text
          /\ messages[2].content \in TaskSet
    /\ Len(requests) = Len(responses)
    /\ \A i \in DOMAIN requests : Grouped(requests[i], -1) /\ IsPrefix(requests[i], messages)

\* C22: the conversation of one execute call starts with one system and
\* one user message (the task), only grows by appending, and after the
\* first two messages is made of groups of one assistant message with
\* k >= 1 tool calls followed by exactly k tool results; every completion
\* request is sent the whole conversation so far.
C22_ConversationGrows ==
    /\ []ConversationShape
    /\ [][/\ IsPrefix(messages, messages')
          /\ requests' # requests => requests' = Append(requests, messages)]_vars

(***************************************************************************)
(* The router.                                                             *)
(***************************************************************************)
\* What a call does when it dispatches to the agent of tool group g
SingleDispatch(g) == <<"classify_intent", "_build_chat_task", "execute " \o g>>

\* C23: handle_chat_message is a single-dispatch router.  Each call
\* classifies once, then builds the task, then calls Agent.execute once on
\* one agent, in that order, whatever the intent; no second agent is run.
C23_SingleDispatch ==
    /\ \E g \in {"research", "news", "portfolio"} : IsPrefix(events, SingleDispatch(g))
    /\ hpc \in {"executing", "returned"} => events = SingleDispatch(agent.tool_group)
    /\ hpc \in {"returned", "escaped"} =>
          \E g \in {"research", "news", "portfolio"} : events = SingleDispatch(g)

(***************************************************************************)
(* The full analysis.                                                      *)
(***************************************************************************)
\* C28: run_full_analysis runs the research, the news and the portfolio
\* agent in this order, each to completion before the next starts.  When
\* one raises, no later agent is run and run_full_analysis raises instead
\* of returning a partial result; on success the result has exactly the
\* keys research, news and portfolio.
C28_Sequential ==
    LET order == <<"research", "news", "portfolio">>
        n     == Len(runs)
    IN  /\ n <= 3
        /\ \A k \in 1..n : runs[k].agent = order[k]
        /\ \A k \in 1..(n - 1) : runs[k].out.kind = "return"
        /\ cpc.at = "running" => /\ runs[n].out = NoResult
                                 /\ pc # "idle" /\ agent.tool_group = order[n]
        /\ cpc.at \in {"idle", "between", "returned", "raised"} => pc = "idle"
        /\ cpc.at = "between" => n < 3 /\ runs[n].out.kind = "return"
        /\ cpc.at = "raised" <=> (n > 0 /\ runs[n].out.kind = "raise")
        /\ cpc.at = "raised" => crewOut = runs[n].out
        /\ cpc.at = "returned" =>
              /\ n = 3
              /\ crewOut.kind = "return"
              /\ DOMAIN crewOut.value = {"research", "news", "portfolio"}
              /\ \A k \in 1..3 : crewOut.value[order[k]] = runs[k].out.value
        /\ cpc.at \notin {"returned", "raised"} => crewOut = NoResult

\* The research agent has returned, the news agent has raised, and
\* run_full_analysis has raised with it.
C28_Witness ==
    /\ cpc.at = "raised"
    /\ Len(runs) = 2
    /\ runs[1].out.kind = "return"
    /\ crewOut.kind = "raise"

(***************************************************************************)
(* The tool lookup.                                                        *)
(***************************************************************************)
\* The positions of the tool results of the conversation, in order
ToolResults == SelectSeq([p \in DOMAIN messages |-> p], LAMBDA p : messages[p].role = "tool")

\* The call a tool result answers
CallOf(p) == messages[Asker(messages, p)].tool_calls[p - Asker(messages, p)]

Offered(name) ==
    \E i \in DOMAIN TOOL_SCHEMAS(agent.tool_group) : TOOL_SCHEMAS(agent.tool_group)[i] = name

\* C29: execute looks the requested tool up in the one registry
\* TOOL_FUNCTIONS whatever the agent's tool_group.  A registered name is
\* executed also when it is not among the tools offered to the agent, and
\* exactly the names absent from the registry get the Unknown tool result.
C29_GlobalRegistry ==
    LET registered == SelectSeq(ToolResults, LAMBDA p : CallOf(p).name \in TOOL_FUNCTIONS)
    IN  /\ \A i \in DOMAIN ToolResults :
              LET p == ToolResults[i]
              IN  CallOf(p).name \notin TOOL_FUNCTIONS
                      <=> messages[p].content = JsonDumpsError("Unknown tool: " \o CallOf(p).name)
        /\ toolRuns = [i \in DOMAIN registered |-> CallOf(registered[i]).name]

\* The news agent has executed get_stock_data, which it is not offered,
\* and has answered a name outside the registry with the error.
C29_Witness ==
    /\ agent.tool_group = "news"
    /\ \E i \in DOMAIN ToolResults :
          LET p == ToolResults[i]
          IN  /\ CallOf(p).name = "get_stock_data"
              /\ ~Offered(CallOf(p).name)
              /\ messages[p].content = ToolBody("get_stock_data", JsonLoads(CallOf(p).arguments), TRUE)
    /\ \E i \in DOMAIN ToolResults : CallOf(ToolResults[i]).name = "get_weather"
    /\ toolRuns = <<"get_stock_data">>

(***************************************************************************)
(* Properties of the exchange-rate cache                                   *)
(***************************************************************************)
\* The one caller of SpecRate.
Caller == 1

\* The call of the caller has passed the freshness test of line 35.
PastCheck == fx[Caller].pc \in {"hit", "fetch", "store_rate", "store_timestamp", "fallback", "done"}

\* The service has been asked and has answered, well or badly.
Asked(c) == c.answer # 0

\* A call whose fetch succeeded has, when it returns, cached the rate it
\* fetched under the time it read at line 32, and returns that rate.
FetchStored ==
    (fx[Caller].pc = "done" /\ fx[Caller].answer > 0) =>
        /\ _cache = [rate |-> fx[Caller].answer, timestamp |-> fx[Caller].now]
        /\ fx[Caller].ret = fx[Caller].answer

\* A step changes the cache only for a call whose fetch succeeded, and only
\* to the rate it fetched and the time it read at line 32.
OnlyFetchStores ==
    (_cache' # _cache) =>
        /\ fx[Caller].answer > 0
        /\ _cache'.rate = fx[Caller].answer
        /\ _cache'.timestamp \in {_cache.timestamp, fx[Caller].now}

\* What a call that has not fetched a rate itself does with the cache left
\* by the latest successful fetch, made at time _cache.timestamp.
FreshUntilTTL ==
    LET c == fx[Caller]
    IN  (PastCheck /\ c.answer <= 0 /\ fetched) =>
            IF c.now < _cache.timestamp + CACHE_TTL_SECONDS
                THEN /\ ~c.stale
                     /\ ~Asked(c)
                     /\ c.pc \in {"hit", "done"}
                     /\ (c.pc = "done" => c.ret = _cache.rate)
            ELSE /\ c.stale
                 /\ c.pc \in {"fetch", "fallback", "done"}
                 /\ (c.pc # "fetch" => Asked(c))

FreshNow == _cache.rate # RateNone /\ (clock - _cache.timestamp) < CACHE_TTL_SECONDS

\* A call whose refresh failed returns the cached rate, which is that of the
\* latest successful fetch, or FALLBACK_RATE when no fetch ever succeeded;
\* the cache is then still stale, so that the next call asks again.
FailedRefreshReturns ==
    LET c == fx[Caller]
    IN  (c.pc \in {"fallback", "done"} /\ c.answer = -1) =>
            /\ fetched <=> _cache.rate # RateNone
            /\ ~FreshNow
            /\ (c.pc = "done" => c.ret = IF fetched THEN _cache.rate ELSE FALLBACK_RATE)

\* No step of a call that has not fetched a rate changes the cached rate or
\* the cache timestamp.
FailedRefreshKeeps == fx[Caller].answer <= 0 => _cache' = _cache

NoneStoring == \A t \in Threads : fx[t].pc # "store_rate"

\* The cached rate is absent or a positive rate a fetch obtained.
CachedRateValid ==
    \/ _cache.rate = RateNone
    \/ /\ _cache.rate > 0
       /\ _cache.rate \in RemoteAnswers
       /\ fetched

\* C30: the cached rate is absent or a positive number that a successful
\* fetch obtained; is_using_fallback() is true exactly when no fetch has
\* succeeded, and once it is false no step makes it true again.
C30_CachedRate ==
    /\ [](CachedRateValid /\ (NoneStoring => (is_using_fallback <=> ~fetched)))
    /\ [][~is_using_fallback => ~is_using_fallback']_vars

\* A rate is cached, it has gone stale, and the refresh of a later call has
\* failed: is_using_fallback() is still false.
C30_Witness ==
    /\ ~is_using_fallback
    /\ ~FreshNow
    /\ \E t \in Threads : fx[t].pc = "done" /\ fx[t].answer = -1 /\ fx[t].ret = _cache.rate

====
